---- MODULE Spec2Model ----
\* Model of thus/installation/process.py: the installation pipeline
\* controller (InstallationProcess.run / run_installation), its event
\* channel (queue_event / queue_fatal_event), the special-directory
\* mount/umount helpers and the cleanup sequence.
\*
\* External commands (subprocess.check_call, the os module) and the
\* collaborators whose definitions are not part of process.py
\* (auto_partition, chroot, mkinitcpio, misc, install_bootloader,
\* enable_targets, the chroot_run_..._special_dirs helpers) are environment
\* operations: each either succeeds or raises one of the exception kinds
\* of Exc.
EXTENDS Integers, Sequences, FiniteSets, TLC

\* ---------------------------------------------------------------- bounds
\* Capacity of the bounded callback queue handed to the constructor.
QueueSize == 1

\* Largest number of 'percent' events one copy job publishes.
MaxJobEvents == 1

\* Largest number of unmounts of one run whose plain form fails.
MaxUmountFailures == 1

\* Largest number of calls a client makes from outside the pipeline (the
\* chroot helpers, kill).
MaxCalls == 3

\* Largest number of output lines the copy jobs of one extraction read.
MaxLines == 3

\* Largest number of times auto_fstab is run on one set of inputs.
MaxFstabRuns == 2

\* ------------------------------------------------------------- constants
\* The coalescing factor of the copy progress.
CoalesceFactor == 100

DEST_DIR == "/install"

\* self.dest_dir: set to "" by __init__ and assigned nowhere else.
dest_dir == ""

Methods == {"automatic", "alongside", "advanced"}

\* Exception kinds an external operation can raise.  ValueError stands for
\* every exception class that run() does not list.
Exc == {"CalledProcessError", "InstallError", "OSError", "ValueError"}

\* The classes of the second except clause of run().
RunCaught == {"InstallError", "pyalpm.error", "KeyboardInterrupt", "TypeError",
              "AttributeError", "OSError", "IOError"}

\* Event kinds whose publication is counted.
Tracked == {"error", "finished"}

\* The block devices of the DeviceMap, one per mount point.
DeviceTable == [p \in {"/", "/boot", "/home", "swap"} |->
                  CASE p = "/"     -> "/dev/sda2"
                    [] p = "/boot" -> "/dev/sda1"
                    [] p = "/home" -> "/dev/sda4"
                    [] p = "swap"  -> "/dev/sda3"]

MountPointSets == {{"/"}, {"/", "/boot"}, {"/", "/boot", "/home", "swap"}}

\* The order in which a DeviceMap is iterated (dicts keep insertion order).
Rank(p) == CASE p = "/" -> 1 [] p = "/boot" -> 2 [] p = "/home" -> 3
             [] p = "swap" -> 4 [] OTHER -> 5
First(S) == CHOOSE p \in S : \A q \in S : Rank(p) <= Rank(q)
RECURSIVE Ordered(_)
Ordered(S) == IF S = {} THEN <<>> ELSE <<First(S)>> \o Ordered(S \ {First(S)})

DeviceMaps == {[p \in S |-> DeviceTable[p]] : S \in MountPointSets}

\* os.path.join(a, b) on the paths used here: an absolute b replaces a.
IsAbs(p) == p \in {"/", "/boot", "/home", "/sys", "/source", "/source_desktop"}
Join(a, b) ==
    IF IsAbs(b) \/ a = "" THEN b
    ELSE IF a = "/" THEN a \o b
    ELSE a \o "/" \o b

VARIABLES
    method,               \* self.method (settings 'partition_mode')
    hasQueue,             \* callback_queue is not None
    efi,                  \* settings 'efi'
    install_bootloader,   \* settings 'install_bootloader'
    mount_devices,        \* self.mount_devices: mount point -> device
    running,              \* self.running
    error,                \* self.error
    special_dirs_mounted, \* self.special_dirs_mounted
    pc,                   \* position of the installation process
    chan,                 \* the event channel: queue contents and counters
    mounted,              \* paths that carry a mount, and active swap devices
    stages,               \* stages started so far, in order
    stage_open,           \* a stage has started and not yet ended
    cleanups,             \* number of times the cleanup block was entered
    umount_log,           \* paths whose unmount was attempted, in order
    timezone_done,        \* settings 'timezone_done'
    user_info_done,       \* settings 'user_info_done'
    mkinitcpio_done,      \* mkinitcpio.run has returned
    exc,                  \* the exception being propagated ("" if none)
    ufail,                \* unmounts whose plain form has failed so far
    completed,            \* stages that have returned normally
    fatals,               \* number of calls of queue_fatal_event
    injected,             \* the failure a stage has raised ("none" if none)
    mount_log,            \* special directories a mount command was issued for
    umount_res,           \* what the latest unmount loop did, by path
    mount_warn,           \* mount points whose mount or swapon was only logged
    calls,                \* the chroot helpers called from outside, in order
    job,                  \* the FileCopyThread the variable t refers to
    percents,             \* the values of the 'percent' events published
    old_job,              \* the FileCopyThread t referred to before
    our_total,            \* our_total of install_system
    fs_devices,           \* self.fs_devices: device -> filesystem type
    ssd,                  \* self.ssd: the devices known to be solid-state
    use_luks,             \* settings 'use_luks'
    use_lvm,              \* settings 'use_lvm'
    luks_root_password,   \* settings 'luks_root_password'
    fstab,                \* the lines of /install/etc/fstab (<<>>: no file)
    crypttab,             \* the lines appended to /install/etc/crypttab
    btrfs,                \* settings 'btrfs'
    ruuid,                \* settings 'ruuid'
    fstab_runs,           \* number of calls of auto_fstab that returned
    chroot_log            \* the commands chroot_run has run, in order

inputs == <<method, hasQueue, efi, install_bootloader>>
flags  == <<running, error>>
hist   == <<stages, stage_open, cleanups, umount_log, mkinitcpio_done, ufail,
            completed>>
trace  == <<fatals, injected>>
ctl    == <<pc, exc, chan, running, error, fatals, injected>>
sett   == <<timezone_done, user_info_done>>
fst    == <<fs_devices, ssd, use_luks, use_lvm, luks_root_password, fstab,
            crypttab, btrfs, ruuid, fstab_runs>>
api    == <<calls, job, percents, old_job, our_total, chroot_log, fst>>
vars   == <<method, hasQueue, efi, install_bootloader, mount_devices, running,
            error, special_dirs_mounted, pc, chan, mounted, stages, stage_open,
            cleanups, umount_log, timezone_done, user_info_done,
            mkinitcpio_done, exc, ufail, completed, fatals, injected,
            mount_log, umount_res, mount_warn, calls, job, percents, old_job,
            our_total, fs_devices, ssd, use_luks, use_lvm, luks_root_password,
            fstab, crypttab, btrfs, ruuid, fstab_runs, chroot_log>>

\* ------------------------------------------------------------ event channel
EmptyChan == [q |-> <<>>, pub |-> [k \in Tracked |-> 0],
              drop |-> [k \in Tracked |-> 0]]

Count(f, k) == IF k \in Tracked THEN [f EXCEPT ![k] = @ + 1] ELSE f

\* The event types the pipeline publishes.
EventKinds == {"info", "debug", "warning", "error", "percent", "progress-info",
               "pulse", "action", "finished"}

\* What the model keeps of a queued (event_type, event_text) tuple: the
\* type of an 'error', 'finished' or 'debug' event, "other" for the rest.
Queued(kind) == IF kind \in Tracked \cup {"debug"} THEN kind ELSE "other"

\* queue_event that makes room on a full queue by discarding the oldest
\* entry.
queue_event_mutant(c, kind) ==
    IF ~hasQueue THEN [c EXCEPT !.pub = Count(@, kind)]
    ELSE [c EXCEPT !.q = Append(IF Len(@) < QueueSize THEN @ ELSE Tail(@),
                                Queued(kind)),
                   !.pub = Count(@, kind)]

\* queue_event(event_type): put_nowait on the callback queue, queue.Full is
\* swallowed; without a queue the event is printed.
queue_event(c, kind) ==
    IF ~hasQueue THEN [c EXCEPT !.pub = Count(@, kind)]
    ELSE IF Len(c.q) < QueueSize
         THEN [c EXCEPT !.q = Append(@, Queued(kind)), !.pub = Count(@, kind)]
         ELSE [c EXCEPT !.drop = Count(@, kind)]

RECURSIVE queue_events(_, _)
queue_events(c, kinds) ==
    IF kinds = <<>> THEN c
    ELSE queue_events(queue_event(c, Head(kinds)), Tail(kinds))

\* The front end takes one event off the callback queue.
Consume ==
    /\ hasQueue
    /\ chan.q # <<>>
    /\ chan' = [chan EXCEPT !.q = Tail(@)]
    /\ UNCHANGED <<inputs, api, mount_log, umount_res, mount_warn,
                   mount_devices, flags, special_dirs_mounted, pc,
                   mounted, hist, sett, exc, trace>>

\* ------------------------------------------------------- fatal-abort paths
\* queue_fatal_event(txt), called with channel value c.  With a callback
\* queue it blocks in callback_queue.join() and then leaves through
\* os._exit(0).  Without one, callback_queue.join() raises AttributeError
\* after the event was printed; `site` is the handler that exception
\* reaches next.
queue_fatal_event(c, site) ==
    /\ error' = TRUE
    /\ running' = FALSE
    /\ chan' = queue_event(c, "error")
    /\ pc' = IF hasQueue THEN "fatal_join" ELSE site
    /\ exc' = IF hasQueue THEN "" ELSE "AttributeError"
    /\ fatals' = fatals + 1

\* An exception e raised by a stage towards the handler at `site`.
Raise(site, e, c) ==
    /\ pc' = site
    /\ exc' = e
    /\ chan' = c
    /\ injected' = e
    /\ UNCHANGED <<flags, fatals>>

\* Normal continuation at position p.
Goto(p, c) ==
    /\ pc' = p
    /\ exc' = ""
    /\ chan' = c
    /\ UNCHANGED <<flags, trace>>

\* os._exit(0) once callback_queue.join() has returned.
FatalExit ==
    /\ pc = "fatal_join"
    /\ chan.q = <<>>
    /\ pc' = "exited"
    /\ UNCHANGED <<inputs, api, mount_log, umount_res, mount_warn,
                   mount_devices, flags, special_dirs_mounted, chan,
                   mounted, hist, sett, exc, trace>>

\* ---------------------------------------------------------- construction
\* No unmount loop has run yet.  Of a loop the record keeps the paths whose
\* plain unmount failed, for which `umount -l` was run, for which both
\* failed, and for which a 'warning' event was published.
NoUmounts == [plain_failed |-> {}, lazy_tried |-> {}, both_failed |-> {},
              warned |-> {}]

\* No copy job exists.
NoJob == [state |-> "none"]

\* auto_fstab has not run: no filesystem is assigned, no fstab exists.
NoFstab ==
    /\ fs_devices = <<>>
    /\ ssd = {}
    /\ use_luks = FALSE
    /\ use_lvm = FALSE
    /\ luks_root_password = ""
    /\ fstab = <<>>
    /\ crypttab = <<>>
    /\ btrfs = FALSE
    /\ ruuid = ""
    /\ fstab_runs = 0

\* InstallationProcess.__init__: the flags, and the first 'info' event.
Init ==
    /\ method \in Methods
    /\ hasQueue \in BOOLEAN
    /\ efi \in BOOLEAN
    /\ install_bootloader \in BOOLEAN
    /\ mount_devices \in IF method = "automatic" THEN {<<>>} ELSE DeviceMaps
    /\ running = TRUE
    /\ error = FALSE
    /\ special_dirs_mounted = FALSE
    /\ pc = "start"
    /\ exc = ""
    /\ chan = queue_event(EmptyChan, "info")
    /\ mounted = {}
    /\ stages = <<>>
    /\ stage_open = ""
    /\ cleanups = 0
    /\ umount_log = <<>>
    /\ timezone_done = "False"
    /\ user_info_done = "False"
    /\ mkinitcpio_done = FALSE
    /\ ufail = 0
    /\ completed = {}
    /\ fatals = 0
    /\ injected = "none"
    /\ mount_log = <<>>
    /\ umount_res = NoUmounts
    /\ mount_warn = {}
    /\ calls = <<>>
    /\ job = NoJob
    /\ percents = <<>>
    /\ old_job = NoJob
    /\ NoFstab
    /\ chroot_log = <<>>
    /\ our_total = 0

\* The settings-collection flow of the front end sets its readiness flags.
SetTimezoneDone ==
    /\ timezone_done # "True"
    /\ timezone_done' = "True"
    /\ UNCHANGED <<inputs, api, mount_log, umount_res, mount_warn,
                   mount_devices, special_dirs_mounted, mounted, hist,
                   user_info_done, ctl>>

SetUserInfoDone ==
    /\ user_info_done # "True"
    /\ user_info_done' = "True"
    /\ UNCHANGED <<inputs, api, mount_log, umount_res, mount_warn,
                   mount_devices, special_dirs_mounted, mounted, hist,
                   timezone_done, ctl>>

\* ------------------------------------------------------ run(): its handlers
\* The except clauses of run() for the exception leaving run_installation:
\* CalledProcessError and the listed classes are reported through
\* queue_fatal_event; every other exception leaves run() uncaught.  An
\* AttributeError raised by queue_fatal_event inside a handler leaves run()
\* as well.
RunExcept ==
    /\ pc = "exc_run"
    /\ IF exc = "CalledProcessError" \/ exc \in RunCaught
       THEN queue_fatal_event(chan, "crashed") /\ UNCHANGED injected
       ELSE Goto("crashed", chan)
    /\ UNCHANGED <<inputs, api, mount_log, umount_res, mount_warn,
                   mount_devices, special_dirs_mounted, mounted, hist,
                   sett>>

\* ------------------------------------------- run_installation: first stages
\* The test of line 345 without its 'alongside' alternative.
NextAfterPrepareMutant(m) ==
    IF m = "automatic" THEN "partition"
    ELSE IF m = "advanced" THEN "mount_target"
    ELSE "prep_dirs"

\* The tests of lines 318 and 345 on self.method.
NextAfterPrepare(m) ==
    IF m = "automatic" THEN "partition"
    ELSE IF m = "alongside" \/ m = "advanced" THEN "mount_target"
    ELSE "prep_dirs"

\* Lines 291-314: target directory, configuration values.
Prepare ==
    /\ pc = "start"
    /\ Goto(NextAfterPrepare(method), chan)
    /\ UNCHANGED <<inputs, api, mount_log, umount_res, mount_warn,
                   mount_devices, special_dirs_mounted, mounted, hist,
                   sett>>

\* What AutoPartition.run leaves mounted for the device map m it created:
\* the root device on the target directory and, if any, the boot device (see the comment at line 366).
AutoPartitionMounts(m) ==
    {DEST_DIR} \cup (IF "/boot" \in DOMAIN m THEN {Join(DEST_DIR, "boot")} ELSE {})

\* Lines 318-339: automatic partitioning, then the device maps are taken
\* from the partitioner.
Partition ==
    /\ pc = "partition"
    /\ stages' = Append(stages, "PARTITION")
    /\ \/ \E m \in DeviceMaps :
            /\ mount_devices' = m
            /\ mounted' = mounted \cup AutoPartitionMounts(m)
            /\ completed' = completed \cup {"PARTITION"}
            /\ Goto("prep_dirs", chan)
       \/ \E e \in Exc :
            /\ Raise("exc_run", e, chan)
            /\ UNCHANGED <<mount_devices, mounted, completed>>
    /\ UNCHANGED <<inputs, api, mount_log, umount_res, mount_warn,
                   special_dirs_mounted, stage_open, cleanups,
                   umount_log, ufail, mkinitcpio_done, sett>>

root_partition(md) == md["/"]
boot_partition(md) == IF "/boot" \in DOMAIN md THEN md["/boot"] ELSE ""
swap_partition(md) == IF "swap" \in DOMAIN md THEN md["swap"] ELSE ""

\* The mount points the advanced-mode loop (lines 382-400) mounts itself.
OtherPartitions(md) ==
    {p \in DOMAIN md :
        /\ p # ""
        /\ md[p] # root_partition(md)
        /\ md[p] # boot_partition(md)
        /\ md[p] # swap_partition(md)}

\* The loop of lines 382-409 with its two except clauses removed: a failed
\* mount or swapon leaves the loop and run_installation.
AfterOtherMountsMutant(failed) == IF failed = {} THEN "prep_dirs" ELSE "exc_run"

\* Where run_installation goes after the advanced-mode loop (lines 382-409)
\* in which the mounts and swapons of `failed` exited non-zero: both except
\* clauses (lines 395, 404) only log.
AfterOtherMounts(failed) == "prep_dirs"

\* Lines 345-409: mount the pre-selected root and boot devices; in advanced
\* mode also every other partition and the swap, where a failed mount or
\* swapon is only logged.
MountTarget ==
    /\ pc = "mount_target"
    /\ stages' = Append(stages, "MOUNT_TARGET")
    /\ \/ /\ Raise("exc_run", "CalledProcessError", chan)   \* line 369
          /\ UNCHANGED <<mounted, completed, mount_warn>>
       \/ /\ "/boot" \in DOMAIN mount_devices                \* line 378
          /\ Raise("exc_run", "CalledProcessError", chan)
          /\ mounted' = mounted \cup {DEST_DIR}
          /\ UNCHANGED <<completed, mount_warn>>
       \/ \E failed \in SUBSET (IF method = "advanced"
                                THEN OtherPartitions(mount_devices)
                                       \cup (DOMAIN mount_devices \cap {"swap"})
                                ELSE {}) :
            LET next == AfterOtherMounts(failed) IN
            /\ mounted' = mounted \cup {DEST_DIR}
                 \cup (IF "/boot" \in DOMAIN mount_devices
                       THEN {Join(DEST_DIR, "boot")} ELSE {})
                 \cup (IF method = "advanced"
                       THEN {Join(DEST_DIR, p) :
                               p \in OtherPartitions(mount_devices) \ failed}
                            \cup {mount_devices[p] :
                                    p \in (DOMAIN mount_devices \cap {"swap"}) \ failed}
                       ELSE {})
            /\ mount_warn' = failed
            /\ completed' = IF next = "prep_dirs"
                            THEN completed \cup {"MOUNT_TARGET"} ELSE completed
            /\ Goto(next, chan)
    /\ UNCHANGED <<inputs, api, mount_log, umount_res,
                   mount_devices, special_dirs_mounted, stage_open,
                   cleanups, umount_log, ufail, mkinitcpio_done, sett>>

\* Lines 411-429: stale pacman lock, needed folders.
PrepDirs ==
    /\ pc = "prep_dirs"
    /\ stages' = Append(stages, "PREP_DIRS")
    /\ \/ /\ Goto("install_system", chan)
          /\ completed' = completed \cup {"PREP_DIRS"}
       \/ /\ Raise("exc_run", "OSError", chan)
          /\ UNCHANGED completed
    /\ UNCHANGED <<inputs, api, mount_log, umount_res, mount_warn,
                   mount_devices, special_dirs_mounted, mounted,
                   stage_open, cleanups, umount_log, ufail, mkinitcpio_done, sett>>

\* ------------------------------------------------------------ install_system
\* Lines 434 and 553-568: the media checks.  A missing base or desktop
\* image is reported by queue_fatal_event inside the try block of
\* install_system.
InstallSystemMedia ==
    /\ pc = "install_system"
    /\ stages' = Append(stages, "INSTALL_SYSTEM")
    /\ stage_open' = "INSTALL_SYSTEM"
    /\ LET c1 == queue_event(chan, "debug") IN
       \/ Goto("is_mount", c1)
       \/ Raise("exc_install_system", "OSError", c1)          \* os.mkdir
       \/ /\ queue_fatal_event(c1, "exc_install_system")      \* lines 564, 568
          /\ injected' = "missing image"
    /\ UNCHANGED <<inputs, api, mount_log, umount_res, mount_warn,
                   mount_devices, special_dirs_mounted, mounted,
                   cleanups, umount_log, ufail, mkinitcpio_done, completed, sett>>

\* Lines 628-633: the except clause of install_system.
InstallSystemExcept ==
    /\ pc = "exc_install_system"
    /\ queue_fatal_event(chan, "exc_try")
    /\ UNCHANGED injected
    /\ stage_open' = ""
    /\ UNCHANGED <<inputs, api, mount_log, umount_res, mount_warn,
                   mount_devices, special_dirs_mounted, mounted,
                   stages, cleanups, umount_log, ufail, mkinitcpio_done, completed, sett>>

\* Lines 570-582: loop-mount the two images on /source and /source_desktop.
InstallSystemMount ==
    /\ pc = "is_mount"
    /\ \/ /\ Raise("exc_install_system", "CalledProcessError", chan)
          /\ UNCHANGED mounted
       \/ /\ Raise("exc_install_system", "CalledProcessError", chan)
          /\ mounted' = mounted \cup {"/source"}
       \/ /\ Goto("is_index", chan)
          /\ mounted' = mounted \cup {"/source", "/source_desktop"}
    /\ UNCHANGED <<inputs, api, mount_log, umount_res, mount_warn,
                   mount_devices, special_dirs_mounted, hist, sett>>

\* Lines 589-598: count the files of both images.
InstallSystemIndex ==
    /\ pc = "is_index"
    /\ \/ Goto("is_copy1", queue_events(chan, <<"info", "info", "info">>))
       \/ Raise("exc_install_system", "ValueError",
                queue_events(chan, <<"info", "info">>))
    /\ UNCHANGED <<inputs, api, mount_log, umount_res, mount_warn,
                   mount_devices, special_dirs_mounted, mounted, hist,
                   sett>>

Percents(n) == [i \in 1..n |-> "percent"]

\* Lines 599-603 and 605-613: one copy job, started and joined; the job
\* publishes its 'percent' events in between.
InstallSystemCopy ==
    /\ pc \in {"is_copy1", "is_copy2"}
    /\ LET c1 == IF pc = "is_copy2" THEN queue_event(chan, "info") ELSE chan IN
       \/ \E n \in 0..MaxJobEvents :
            Goto(IF pc = "is_copy1" THEN "is_copy2" ELSE "is_finish",
                 queue_events(c1, Percents(n)))
       \/ Raise("exc_install_system", "OSError", c1)          \* Popen
    /\ UNCHANGED <<inputs, api, mount_log, umount_res, mount_warn,
                   mount_devices, special_dirs_mounted, mounted, hist,
                   sett>>

\* Lines 618-626: the forced 100% and install_system returns.
InstallSystemFinish ==
    /\ pc = "is_finish"
    /\ Goto("mkdir_log", queue_events(chan, <<"percent", "progress-info">>))
    /\ UNCHANGED <<inputs, api, mount_log, umount_res, mount_warn,
                   mount_devices, special_dirs_mounted, mounted, hist,
                   sett>>

\* Lines 438-439.
MkdirLog ==
    /\ pc = "mkdir_log"
    /\ \/ /\ Goto("configure", queue_event(chan, "debug"))
          /\ stage_open' = ""
          /\ completed' = completed \cup {"INSTALL_SYSTEM"}
       \/ /\ \E e \in {"CalledProcessError", "OSError"} : Raise("exc_try", e, chan)
          /\ UNCHANGED <<stage_open, completed>>
    /\ UNCHANGED <<inputs, api, mount_log, umount_res, mount_warn,
                   mount_devices, special_dirs_mounted, mounted, stages,
                   cleanups, umount_log, ufail, mkinitcpio_done, sett>>

\* --------------------------------------- run_installation: the try handlers
\* Lines 450-457: the failures the try block of run_installation reports
\* through queue_fatal_event.
TryExceptFatal(e) == e \in {"CalledProcessError", "InstallError"}

\* Lines 450-473.  Every other exception (lines 458-462) is logged, all_ok
\* stays True and the run goes on with the else branch of line 474.  all_ok
\* is False only after a queue_fatal_event call, which never returns.
TryExcept ==
    /\ pc = "exc_try"
    /\ IF TryExceptFatal(exc)
       THEN queue_fatal_event(chan, "exc_run") /\ UNCHANGED injected
       ELSE Goto("cleanup", chan)
    /\ stage_open' = ""
    /\ UNCHANGED <<inputs, api, mount_log, umount_res, mount_warn,
                   mount_devices, special_dirs_mounted, mounted,
                   stages, cleanups, umount_log, ufail, mkinitcpio_done, completed, sett>>

\* ------------------------------------------------ special chroot directories
\* The order in which chroot_mount_special_dirs mounts (lines 648-665).
MountOrder(e) ==
    IF e THEN <<"sys", "proc", "dev", "dev/pts", "sys/firmware/efi">>
    ELSE <<"sys", "proc", "dev", "dev/pts">>

\* A list that leaves sys/firmware/efi out whatever the efi setting.
UmountOrderMutant(e) == <<"dev/pts", "sys", "proc", "dev">>

\* The list chroot_umount_special_dirs walks (lines 676-679).
UmountOrder(e) ==
    IF e THEN <<"dev/pts", "sys/firmware/efi", "sys", "proc", "dev">>
    ELSE <<"dev/pts", "sys", "proc", "dev">>

\* mydir = os.path.join(self.dest_dir, s_dir)
SpecialPath(s) == Join(dest_dir, s)

SpecialPaths == {SpecialPath(MountOrder(TRUE)[i]) : i \in 1..5}

\* Outcome of `umount p` followed, if it fails, by `umount -l p`.
UmountOutcomes == {"ok", "lazy", "fail"}

Failures(f) == Cardinality({j \in DOMAIN f : f[j] = "fail"})
PlainFailures(f) == Cardinality({j \in DOMAIN f : f[j] # "ok"})

\* The record of one unmount loop over the paths ps with the outcomes f:
\* `umount -l` runs in the except clause of the plain unmount, and the event
\* published when it fails too is of kind failkind.
Unmounted(ps, f, failkind) ==
    LET P(o) == {ps[j] : j \in {i \in DOMAIN ps : f[i] \in o}} IN
    [plain_failed |-> P({"lazy", "fail"}),
     lazy_tried   |-> P({"lazy", "fail"}),
     both_failed  |-> P({"fail"}),
     warned       |-> IF failkind = "warning" THEN P({"fail"}) ELSE {}]

\* The unmounts of one run whose plain form fails are bounded.
Affordable(f) == ufail + PlainFailures(f) <= MaxUmountFailures
Warnings(f) == [i \in 1..Failures(f) |-> "warning"]

\* chroot_mount_special_dirs without the test of line 638.
chroot_mount_special_dirs_mutant(next, site) ==
    LET order == MountOrder(efi) IN
    /\ mounted' = mounted \cup {SpecialPath(order[i]) : i \in 1..Len(order)}
    /\ mount_log' = mount_log \o [i \in 1..Len(order) |-> SpecialPath(order[i])]
    /\ special_dirs_mounted' = TRUE
    /\ Goto(next, chan)

\* chroot_mount_special_dirs (lines 635-667): a no-op when the flag is set;
\* otherwise the mounts in order, any command of which may fail and raise
\* with the earlier mounts in place; the flag is set after the last one.
chroot_mount_special_dirs(next, site) ==
    IF special_dirs_mounted
    THEN /\ Goto(next, queue_event(chan, "debug"))
         /\ UNCHANGED <<mounted, special_dirs_mounted, mount_log>>
    ELSE LET order == MountOrder(efi) IN
         \E k \in 0..Len(order) :
            /\ mounted' = mounted \cup {SpecialPath(order[i]) : i \in 1..k}
            /\ mount_log' = mount_log \o [i \in 1..k |-> SpecialPath(order[i])]
            /\ \/ /\ k = Len(order)
                  /\ special_dirs_mounted' = TRUE
                  /\ Goto(next, chan)
               \/ /\ k < Len(order) \/ ~efi
                  /\ Raise(site, "CalledProcessError", chan)
                  /\ UNCHANGED special_dirs_mounted

\* chroot_umount_special_dirs that stops at the first directory it cannot
\* unmount.
chroot_umount_special_dirs_mutant(next, site) ==
    IF ~special_dirs_mounted
    THEN /\ Goto(next, queue_event(chan, "debug"))
         /\ UNCHANGED <<mounted, special_dirs_mounted, umount_log, ufail,
                        umount_res>>
    ELSE LET order == UmountOrder(efi) IN
         \E f \in [1..Len(order) -> UmountOutcomes] :
            /\ Affordable(f)
            /\ ufail' = ufail + PlainFailures(f)
            /\ umount_res' = Unmounted(
                   [i \in 1..Len(order) |-> SpecialPath(order[i])], f, "warning")
            /\ mounted' = mounted \ {SpecialPath(order[i]) :
                                        i \in {j \in 1..Len(order) : f[j] # "fail"}}
            /\ umount_log' = umount_log \o [i \in 1..Len(order) |-> SpecialPath(order[i])]
            /\ special_dirs_mounted' = FALSE
            /\ IF \E j \in 1..Len(order) : f[j] = "fail"
               THEN /\ pc' = site
                    /\ exc' = "CalledProcessError"
                    /\ chan' = queue_events(chan, Warnings(f))
                    /\ UNCHANGED <<flags, trace>>
               ELSE Goto(next, chan)

\* chroot_umount_special_dirs without the test of line 672.
chroot_umount_special_dirs_unguarded(next, site) ==
    LET order == UmountOrder(efi) IN
    /\ mounted' = mounted \ {SpecialPath(order[i]) : i \in 1..Len(order)}
    /\ umount_log' = umount_log \o [i \in 1..Len(order) |-> SpecialPath(order[i])]
    /\ umount_res' = NoUmounts
    /\ special_dirs_mounted' = FALSE
    /\ UNCHANGED ufail
    /\ Goto(next, chan)

\* chroot_umount_special_dirs (lines 669-699): a no-op when the flag is
\* clear; otherwise every directory of the list is unmounted, lazily if the
\* plain unmount fails, with a 'warning' event if both fail; the flag is
\* cleared at the end whatever happened.
chroot_umount_special_dirs(next, site) ==
    IF ~special_dirs_mounted
    THEN /\ Goto(next, queue_event(chan, "debug"))
         /\ UNCHANGED <<mounted, special_dirs_mounted, umount_log, ufail,
                        umount_res>>
    ELSE LET order == UmountOrder(efi) IN
         \E f \in [1..Len(order) -> UmountOutcomes] :
            /\ Affordable(f)
            /\ ufail' = ufail + PlainFailures(f)
            /\ umount_res' = Unmounted(
                   [i \in 1..Len(order) |-> SpecialPath(order[i])], f, "warning")
            /\ mounted' = mounted \ {SpecialPath(order[i]) :
                                        i \in {j \in 1..Len(order) : f[j] # "fail"}}
            /\ umount_log' = umount_log \o [i \in 1..Len(order) |-> SpecialPath(order[i])]
            /\ special_dirs_mounted' = FALSE
            /\ Goto(next, queue_events(chan, Warnings(f)))

\* The helpers the pipeline calls at lines 1265 and 485 are named
\* chroot_run_mount_special_dirs and chroot_run_umount_special_dirs; they
\* are taken to be the two methods above.
chroot_run_mount_special_dirs(next, site) == chroot_mount_special_dirs(next, site)
chroot_run_umount_special_dirs(next, site) == chroot_umount_special_dirs(next, site)

\* ---------------------------------------------------------- configure_system
\* Lines 441 and 1148-1172: fstab, network configuration, services.
ConfigureStart ==
    /\ pc = "configure"
    /\ stages' = Append(stages, "CONFIGURE_SYSTEM")
    /\ stage_open' = "CONFIGURE_SYSTEM"
    /\ \/ Goto("cfg_wait_tz", queue_events(chan,
            <<"debug", "action", "debug", "debug", "action", "pulse", "debug">>))
       \/ \E e \in Exc :                                      \* auto_fstab
            Raise("exc_try", e, queue_events(chan, <<"debug", "action">>))
       \/ \E e \in Exc :                                      \* enable_services
            Raise("exc_try", e, queue_events(chan,
               <<"debug", "action", "debug", "debug", "action", "pulse">>))
    /\ UNCHANGED <<inputs, api, mount_log, umount_res, mount_warn,
                   mount_devices, special_dirs_mounted, mounted,
                   cleanups, umount_log, ufail, mkinitcpio_done, completed, sett>>

\* A wait that gives up at once.
StillWaitingMutant(flag) == FALSE

\* The condition of the two polling loops (lines 1175 and 1189):
\* `self.settings.get(...) is False`.
StillWaiting(flag) == flag = "False"

\* Lines 1174-1177: poll until timezone_done is no longer False.
WaitTimezone ==
    /\ pc = "cfg_wait_tz"
    /\ ~StillWaiting(timezone_done)
    /\ Goto("cfg_tz", chan)
    /\ UNCHANGED <<inputs, api, mount_log, umount_res, mount_warn,
                   mount_devices, special_dirs_mounted, mounted, hist,
                   sett>>

\* chroot_run (lines 77-78) for the commands of a step that returns:
\* chroot.run runs each with the target as its root directory and mounts
\* nothing; the log keeps, with each command, whether the special
\* directories were mounted when it ran.
chroot_run(log, cmds) ==
    log \o [i \in 1..Len(cmds) |-> <<cmds[i], special_dirs_mounted>>]

\* Lines 1179-1186: ntpd, the zoneinfo link (line 1184).
SetTimezone ==
    /\ pc = "cfg_tz"
    /\ \/ /\ Goto("cfg_wait_user", queue_event(chan, "debug"))
          /\ chroot_log' = chroot_run(chroot_log, <<"ln">>)
       \/ /\ \E e \in Exc : Raise("exc_try", e, chan)
          /\ UNCHANGED chroot_log
    /\ UNCHANGED <<inputs, calls, job, percents, old_job, our_total, fst,
                   mount_log, umount_res, mount_warn,
                   mount_devices, special_dirs_mounted, mounted, hist,
                   sett>>

\* Lines 1188-1191: poll until user_info_done is no longer False.
WaitUserInfo ==
    /\ pc = "cfg_wait_user"
    /\ ~StillWaiting(user_info_done)
    /\ Goto("cfg_user", chan)
    /\ UNCHANGED <<inputs, api, mount_log, umount_res, mount_warn,
                   mount_devices, special_dirs_mounted, mounted, hist,
                   sett>>

\* How a command run inside the chroot can end: exit status zero or not,
\* failure to spawn, expiry of the timeout.
ChrootOutcomes == {"ok", "nonzero", "OSError", "TimeoutExpired"}

\* chroot(cmd, timeout) (lines 701-722): what it raises for an outcome.
\* OSError and TimeoutExpired are logged and re-raised; the exit status is
\* not looked at.
chroot(o) == IF o \in {"OSError", "TimeoutExpired"} THEN o ELSE ""

\* Lines 1193-1262: sudoers, the user, passwords, hostname, locales, clock.
\* The commands run in the chroot (lines 1212-1247) fail as chroot() does.
CreateUser ==
    /\ pc = "cfg_user"
    /\ \/ /\ Goto("cfg_mount_special", queue_events(chan,
               <<"debug", "debug", "debug", "debug", "info", "info">>))
          /\ chroot_log' = chroot_run(chroot_log,
               <<"useradd", "usermod", "chfn", "chown", "usermod",
                 "locale-gen">>)
       \/ /\ \/ \E o \in ChrootOutcomes :
                   /\ chroot(o) # ""
                   /\ Raise("exc_try", chroot(o), chan)
             \/ \E e \in Exc : Raise("exc_try", e, chan)      \* chmod, line 1205
             \/ \E e \in Exc : Raise("exc_try", e, queue_event(chan, "debug"))
          /\ UNCHANGED chroot_log
    /\ UNCHANGED <<inputs, calls, job, percents, old_job, our_total, fst,
                   mount_log, umount_res, mount_warn,
                   mount_devices, special_dirs_mounted, mounted, hist,
                   sett>>

\* Lines 1264-1265: enter the chroot system.
ConfigureMountSpecial ==
    /\ pc = "cfg_mount_special"
    /\ chroot_run_mount_special_dirs("cfg_hw", "exc_try")
    /\ UNCHANGED <<inputs, api, umount_res, mount_warn,
                   mount_devices, hist, sett>>

\* Lines 1267-1420: root's configuration, hardware, display manager,
\* package manager, keyboard.  A failure of the MHWD script (line 1290)
\* reaches `except subprocess.FileNotFoundError`, whose evaluation raises
\* AttributeError.
ConfigureHardware ==
    /\ pc = "cfg_hw"
    /\ \/ /\ Goto("cfg_mkinitcpio", queue_events(chan,
               <<"info", "info", "info", "action", "pulse", "info">>))
          /\ chroot_log' = chroot_run(chroot_log,
               <<"cp", "dbus-uuidgen", "dbus-uuidgen", "pacman-key">>)
       \/ /\ \/ \E e \in Exc : Raise("exc_try", e, chan)
             \/ Raise("exc_try", "AttributeError",
                      queue_events(chan, <<"info", "info", "pulse">>))
          /\ UNCHANGED chroot_log
    /\ UNCHANGED <<inputs, calls, job, percents, old_job, our_total, fst,
                   mount_log, umount_res, mount_warn,
                   mount_devices, special_dirs_mounted, mounted, hist,
                   sett>>

\* Line 446 without its test of the install_bootloader setting.
AfterConfigureMutant(ib) == "install_bootloader"

\* Where run_installation goes once configure_system has returned
\* (lines 443-448).
AfterConfigure(ib) == IF ib THEN "install_bootloader" ELSE "cleanup"

\* Lines 1422-1440 and 443: mkinitcpio, autologin, home encryption.
ConfigureMkinitcpio ==
    /\ pc = "cfg_mkinitcpio"
    /\ \/ /\ Goto(AfterConfigure(install_bootloader),
                  queue_events(chan, <<"info", "pulse", "info", "debug">>))
          /\ mkinitcpio_done' = TRUE
          /\ stage_open' = ""
          /\ completed' = completed \cup {"CONFIGURE_SYSTEM"}
       \/ /\ \E e \in Exc :                                   \* mkinitcpio.run
               Raise("exc_try", e, queue_events(chan, <<"info", "pulse">>))
          /\ UNCHANGED <<mkinitcpio_done, stage_open, completed>>
       \/ /\ \E e \in Exc :                                   \* set_autologin
               Raise("exc_try", e, queue_events(chan, <<"info", "pulse", "info">>))
          /\ mkinitcpio_done' = TRUE
          /\ UNCHANGED <<stage_open, completed>>
    /\ UNCHANGED <<inputs, api, mount_log, umount_res, mount_warn,
                   mount_devices, special_dirs_mounted, mounted, stages,
                   cleanups, umount_log, ufail, sett>>

\* Lines 446-448.
InstallBootloader ==
    /\ pc = "install_bootloader"
    /\ stages' = Append(stages, "INSTALL_BOOTLOADER")
    /\ LET c1 == queue_event(chan, "debug") IN
       \/ /\ Goto("cleanup", c1)
          /\ completed' = completed \cup {"INSTALL_BOOTLOADER"}
       \/ /\ \E e \in Exc : Raise("exc_try", e, c1)
          /\ UNCHANGED completed
    /\ UNCHANGED <<inputs, api, mount_log, umount_res, mount_warn,
                   mount_devices, special_dirs_mounted, mounted,
                   stage_open, cleanups, umount_log, ufail, mkinitcpio_done, sett>>

\* ------------------------------------------- run_installation: the cleanup
\* misc.mount_info(p)[0]: the path p is a mount point.
mount_info(p) == p \in mounted

\* Lines 474-483: the else branch starts by copying the installer's log.
CleanupStart ==
    /\ pc = "cleanup"
    /\ cleanups' = cleanups + 1
    /\ stages' = Append(stages, "FINALIZE_CLEANUP")
    /\ stage_open' = "FINALIZE_CLEANUP"
    /\ Goto("umount_special", chan)
    /\ UNCHANGED <<inputs, api, mount_log, umount_res, mount_warn,
                   mount_devices, special_dirs_mounted, mounted,
                   umount_log, ufail, mkinitcpio_done, completed, sett>>

\* Lines 484-485.
UmountSpecial ==
    /\ pc = "umount_special"
    /\ chroot_run_umount_special_dirs("umount_sources", "exc_run")
    /\ UNCHANGED <<inputs, api, mount_log, mount_warn,
                   mount_devices, stages, stage_open, cleanups,
                   mkinitcpio_done, completed, sett>>

\* The events one unmount of the cleanup block publishes: 'Unmounting ...'
\* and, when the plain and the lazy unmount both fail, `failkind`.
UmountEvents(o, failkind) ==
    IF o = "fail" THEN <<"debug", failkind>> ELSE <<"debug">>

RECURSIVE LoopEvents(_, _, _)
LoopEvents(f, i, failkind) ==
    IF i > Len(f) THEN <<>>
    ELSE UmountEvents(f[i], failkind) \o LoopEvents(f, i + 1, failkind)

\* One cleanup loop over the paths ps, each unmounted plainly, then lazily:
\* what stays mounted, what is logged and published.
UmountLoop(ps, failkind, next, tail) ==
    \E f \in [1..Len(ps) -> UmountOutcomes] :
        /\ Affordable(f)
        /\ ufail' = ufail + PlainFailures(f)
        /\ umount_res' = Unmounted(ps, f, failkind)
        /\ mounted' = mounted \ {ps[i] : i \in {j \in 1..Len(ps) : f[j] # "fail"}}
        /\ umount_log' = umount_log \o ps
        /\ Goto(next, queue_events(chan, LoopEvents(f, 1, failkind) \o tail))

\* Lines 486-502: the loop over the set {"source", "source_desktop"}, in
\* whichever order the set is iterated; a directory is unmounted only if
\* mount_info finds it mounted; then the 'Mounted devices' event.
UmountSources ==
    /\ pc = "umount_sources"
    /\ \E ord \in {<<"source", "source_desktop">>, <<"source_desktop", "source">>} :
         LET paths == [i \in 1..2 |-> Join("/", ord[i])]
             Test(p) == mount_info(p)
         IN UmountLoop(SelectSeq(paths, Test), "warning", "umount_targets", <<"debug">>)
    /\ UNCHANGED <<inputs, api, mount_log, mount_warn,
                   mount_devices, special_dirs_mounted, stages,
                   stage_open, cleanups, mkinitcpio_done, completed, sett>>

\* The mount points the loop of lines 503-519 unmounts.
IsTargetMountPoint(path) == path # "/" /\ path # "swap" /\ path # ""

\* mount_dir = self.dest_dir + path
TargetDirs(md) ==
    LET ps == SelectSeq(Ordered(DOMAIN md), IsTargetMountPoint)
    IN [i \in 1..Len(ps) |-> dest_dir \o ps[i]]

\* Lines 503-519: the loop over self.mount_devices.
UmountTargets ==
    /\ pc = "umount_targets"
    /\ UmountLoop(TargetDirs(mount_devices), "debug", "umount_root", <<>>)
    /\ UNCHANGED <<inputs, api, mount_log, mount_warn,
                   mount_devices, special_dirs_mounted, stages,
                   stage_open, cleanups, mkinitcpio_done, completed, sett>>

\* Lines 520-533: unmount self.dest_dir if it is a mount point.
UmountRoot ==
    /\ pc = "umount_root"
    /\ IF mount_info(dest_dir)
       THEN \E o \in UmountOutcomes :
              /\ Affordable(<<o>>)
              /\ ufail' = ufail + PlainFailures(<<o>>)
              /\ umount_res' = Unmounted(<<dest_dir>>, <<o>>, "debug")
              /\ mounted' = IF o = "fail" THEN mounted ELSE mounted \ {dest_dir}
              /\ umount_log' = Append(umount_log, dest_dir)
              /\ Goto("finish", queue_events(chan, UmountEvents(o, "debug")))
       ELSE /\ UNCHANGED <<mounted, umount_log, ufail, umount_res>>
            /\ Goto("finish", chan)
    /\ UNCHANGED <<inputs, api, mount_log, mount_warn,
                   mount_devices, special_dirs_mounted, stages,
                   stage_open, cleanups, mkinitcpio_done, completed, sett>>

\* Lines 534-538: 'finished', and run() returns.
Finish ==
    /\ pc = "finish"
    /\ chan' = queue_event(chan, "finished")
    /\ running' = FALSE
    /\ error' = FALSE
    /\ pc' = "returned"
    /\ exc' = ""
    /\ stage_open' = ""
    /\ completed' = completed \cup {"FINALIZE_CLEANUP"}
    /\ UNCHANGED <<inputs, api, mount_log, umount_res, mount_warn,
                   mount_devices, special_dirs_mounted, mounted, stages,
                   cleanups, umount_log, ufail, mkinitcpio_done, sett, trace>>

\* -------------------------------------------------------------- the system
Next ==
    \/ Consume
    \/ SetTimezoneDone
    \/ SetUserInfoDone
    \/ Prepare
    \/ Partition
    \/ MountTarget
    \/ PrepDirs
    \/ InstallSystemMedia
    \/ InstallSystemExcept
    \/ InstallSystemMount
    \/ InstallSystemIndex
    \/ InstallSystemCopy
    \/ InstallSystemFinish
    \/ MkdirLog
    \/ TryExcept
    \/ RunExcept
    \/ FatalExit
    \/ ConfigureStart
    \/ WaitTimezone
    \/ SetTimezone
    \/ WaitUserInfo
    \/ CreateUser
    \/ ConfigureMountSpecial
    \/ ConfigureHardware
    \/ ConfigureMkinitcpio
    \/ InstallBootloader
    \/ CleanupStart
    \/ UmountSpecial
    \/ UmountSources
    \/ UmountTargets
    \/ UmountRoot
    \/ Finish

Spec == Init /\ [][Next]_vars

Terminated == pc \in {"exited", "returned", "crashed"}

TypeOK ==
    /\ pc \in {"start", "partition", "mount_target", "prep_dirs",
               "install_system", "exc_install_system", "is_mount", "is_index",
               "is_copy1", "is_copy2", "is_finish", "mkdir_log", "exc_try",
               "exc_run", "fatal_join", "configure", "cfg_wait_tz", "cfg_tz",
               "cfg_wait_user", "cfg_user", "cfg_mount_special", "cfg_hw",
               "cfg_mkinitcpio", "install_bootloader", "cleanup",
               "umount_special", "umount_sources", "umount_targets",
               "umount_root", "finish", "exited", "returned", "crashed"}
    /\ running \in BOOLEAN /\ error \in BOOLEAN
    /\ special_dirs_mounted \in BOOLEAN
    /\ Len(chan.q) <= QueueSize

\* ------------------------------------------------------------- vocabulary
\* Calls of queue_event(kind) so far, and those of them that reached the
\* channel (put on the queue, or printed when there is no queue).
Published(kind) == chan.pub[kind] + chan.drop[kind]
Delivered(kind) == chan.pub[kind]

Range(s) == {s[i] : i \in DOMAIN s}

\* The position of a stage in the pipeline.
StageRank(st) ==
    CASE st = "PARTITION"          -> 1
      [] st = "MOUNT_TARGET"       -> 2
      [] st = "PREP_DIRS"          -> 3
      [] st = "INSTALL_SYSTEM"     -> 4
      [] st = "CONFIGURE_SYSTEM"   -> 5
      [] st = "INSTALL_BOOTLOADER" -> 6
      [] st = "FINALIZE_CLEANUP"   -> 7

\* The failures run() and run_installation recognise as fatal.
Recognized == {"CalledProcessError", "InstallError", "missing image"}

\* The two terminal states of the pipeline.
FinishedState ==
    /\ ~running /\ ~error
    /\ Published("finished") > 0 /\ Published("error") = 0
FailedState ==
    /\ ~running /\ error
    /\ Published("error") > 0 /\ Published("finished") = 0

\* The group of the cleanup sequence an unmounted path belongs to.
UmountClass(p) ==
    IF p \in SpecialPaths THEN 1
    ELSE IF p \in {"/source", "/source_desktop"} THEN 2
    ELSE IF p = DEST_DIR THEN 4
    ELSE 3

\* ------------------------------------------------------------------ claims
\* C1: whatever failure a stage raises, the cleanup block has been entered
\* exactly once when the run returns or the process terminates.
C1_CleanupExactlyOnce == Terminated => cleanups = 1

\* C2: in every terminal state none of the special directories sys, proc,
\* dev, dev/pts, sys/firmware/efi is still mounted (stated for the runs in
\* which no unmount failed).
C2_NoSpecialDirLeftMounted ==
    (Terminated /\ ufail = 0) => mounted \cap SpecialPaths = {}

\* C3: a run in which a stage raised a recognised failure
\* (CalledProcessError, InstallError, a missing source image) ends FAILED:
\* error is true, running is false and 'finished' was never published.
C3_RecognizedFailureEndsFailed ==
    (Terminated /\ injected \in Recognized) =>
        (error /\ ~running /\ Published("finished") = 0)

\* C4: 'finished' is published only in runs in which install_system,
\* configure_system and, when the setting asks for it, install_bootloader
\* have all returned without raising.
C4_FinishedOnlyAfterMandatoryStages ==
    Published("finished") > 0 =>
        /\ {"INSTALL_SYSTEM", "CONFIGURE_SYSTEM"} \subseteq completed
        /\ install_bootloader => "INSTALL_BOOTLOADER" \in completed

\* C5: every run that ends is in exactly one of FINISHED and FAILED, and
\* once running is false neither running nor error changes again.
C5_TerminalStates ==
    [][/\ Terminated' => (FinishedState' \/ FailedState')
       /\ ~running => (running' = running /\ error' = error)]_vars

\* C6: when the run has ended after a fatal abort, exactly one 'error'
\* event has been delivered to the event channel.
C6_ExactlyOneErrorDelivered ==
    (Terminated /\ fatals > 0) => Delivered("error") = 1

\* C7: the stages start at most once each and in pipeline order; no stage
\* starts while another is open, nor before the stage before it has
\* returned; PARTITION starts only in automatic mode; INSTALL_BOOTLOADER
\* starts only if the install_bootloader setting is true and
\* configure_system, mkinitcpio included, has completed.
C7_StageOrder ==
    /\ \A i, j \in DOMAIN stages :
          i < j => StageRank(stages[i]) < StageRank(stages[j])
    /\ stage_open # "" => stage_open = stages[Len(stages)]
    /\ "PARTITION" \in Range(stages) => method = "automatic"
    /\ "PREP_DIRS" \in Range(stages) =>
          ("PARTITION" \in completed \/ "MOUNT_TARGET" \in completed)
    /\ "INSTALL_SYSTEM" \in Range(stages) => "PREP_DIRS" \in completed
    /\ "CONFIGURE_SYSTEM" \in Range(stages) => "INSTALL_SYSTEM" \in completed
    /\ "INSTALL_BOOTLOADER" \in Range(stages) =>
          /\ install_bootloader
          /\ mkinitcpio_done
          /\ "CONFIGURE_SYSTEM" \in completed

\* A complete automatic run with the boot loader installed.
C7_Witness ==
    /\ pc = "returned"
    /\ stages = <<"PARTITION", "PREP_DIRS", "INSTALL_SYSTEM",
                  "CONFIGURE_SYSTEM", "INSTALL_BOOTLOADER", "FINALIZE_CLEANUP">>

C9_CleanupOrder ==
    pc = "returned" =>
        /\ \A i, j \in DOMAIN umount_log :
              i < j => UmountClass(umount_log[i]) <= UmountClass(umount_log[j])
        /\ umount_log # <<>>
        /\ umount_log[Len(umount_log)] = DEST_DIR

C11_LazyAndWarning ==
    /\ umount_res.lazy_tried = umount_res.plain_failed
    /\ umount_res.warned = umount_res.both_failed

\* ------------------------------------- the chroot helpers called directly
\* A constructed InstallationProcess whose two public helpers are called by
\* a client, in any order.
InitChroot ==
    /\ method = "advanced"
    /\ hasQueue \in BOOLEAN
    /\ efi \in BOOLEAN
    /\ install_bootloader = FALSE
    /\ mount_devices \in DeviceMaps
    /\ running = TRUE
    /\ error = FALSE
    /\ special_dirs_mounted = FALSE
    /\ pc = "api"
    /\ exc = ""
    /\ chan = queue_event(EmptyChan, "info")
    /\ mounted = {}
    /\ stages = <<>>
    /\ stage_open = ""
    /\ cleanups = 0
    /\ umount_log = <<>>
    /\ timezone_done = "False"
    /\ user_info_done = "False"
    /\ mkinitcpio_done = FALSE
    /\ ufail = 0
    /\ completed = {}
    /\ fatals = 0
    /\ injected = "none"
    /\ mount_log = <<>>
    /\ umount_res = NoUmounts
    /\ mount_warn = {}
    /\ calls = <<>>
    /\ job = NoJob
    /\ percents = <<>>
    /\ old_job = NoJob
    /\ NoFstab
    /\ chroot_log = <<>>
    /\ our_total = 0

\* self.chroot_mount_special_dirs(); an exception goes to the caller.
CallMount ==
    /\ pc = "api"
    /\ Len(calls) < MaxCalls
    /\ calls' = Append(calls, "mount")
    /\ chroot_mount_special_dirs("api", "api")
    /\ UNCHANGED <<inputs, mount_devices, hist, sett, umount_res, mount_warn,
                   job, percents, old_job, our_total, chroot_log,
                   fst>>

\* self.chroot_umount_special_dirs()
CallUmount ==
    /\ pc = "api"
    /\ Len(calls) < MaxCalls
    /\ calls' = Append(calls, "umount")
    /\ chroot_umount_special_dirs("api", "api")
    /\ UNCHANGED <<inputs, mount_devices, stages, stage_open, cleanups,
                   mkinitcpio_done, completed, sett, mount_log, mount_warn,
                   job, percents, old_job, our_total, chroot_log,
                   fst>>

NextChroot ==
    \/ CallMount
    \/ CallUmount
    \/ Consume

SpecChroot == InitChroot /\ [][NextChroot]_vars

\* C12: a call of chroot_mount_special_dirs made while special_dirs_mounted
\* is true (the call after a successful one) issues no mount, publishes one
\* 'debug' event, raises nothing and leaves the flag true.
C12_SecondMountIsNoop ==
    [][(calls' = Append(calls, "mount") /\ special_dirs_mounted) =>
          /\ mount_log' = mount_log
          /\ mounted' = mounted
          /\ special_dirs_mounted'
          /\ chan' = queue_event(chan, "debug")
          /\ exc' = ""]_vars

\* Two calls in a row, the first of which succeeded: one round of mounts.
C12_Witness ==
    /\ Len(calls) >= 2
    /\ calls[1] = "mount" /\ calls[2] = "mount"
    /\ special_dirs_mounted
    /\ hasQueue /\ Len(chan.q) > 0 /\ chan.q[Len(chan.q)] = "debug"
    /\ mount_log = [i \in 1..Len(MountOrder(efi)) |-> SpecialPath(MountOrder(efi)[i])]

\* C13: a call of chroot_umount_special_dirs made while special_dirs_mounted
\* is false issues no umount and changes nothing but the event channel,
\* which receives one 'debug' event.
C13_UmountWhenNotMountedIsNoop ==
    [][(calls' = Append(calls, "umount") /\ ~special_dirs_mounted) =>
          /\ umount_log' = umount_log
          /\ chan' = queue_event(chan, "debug")
          /\ exc' = ""
          /\ UNCHANGED <<mounted, special_dirs_mounted, running, error, ufail,
                         mount_log, mount_devices, fatals>>]_vars

\* An unmount before any mount, and a second unmount after a completed one.
C13_Witness ==
    /\ calls = <<"umount", "mount", "umount">>
    /\ umount_log = <<>>
    /\ ~special_dirs_mounted

\* C14: whatever the queue holds, queue_event returns a channel for every
\* event type: on a full queue the contents are unchanged and the event is
\* counted as dropped, otherwise it is appended; the queue never exceeds its
\* capacity, and the step that publishes 'finished' is enabled whenever the
\* pipeline is at it.
C14_QueueEventNeverBlocks ==
    /\ \A k \in EventKinds :
         LET c2 == queue_event(chan, k) IN
         /\ DOMAIN c2 = {"q", "pub", "drop"}
         /\ Len(c2.q) <= QueueSize
         /\ (hasQueue /\ Len(chan.q) = QueueSize) =>
               /\ c2.q = chan.q
               /\ c2.pub = chan.pub
               /\ c2.drop = Count(chan.drop, k)
         /\ (hasQueue /\ Len(chan.q) < QueueSize) =>
               /\ c2.q = Append(chan.q, Queued(k))
               /\ c2.drop = chan.drop
         /\ ~hasQueue => c2.q = chan.q
    /\ pc = "finish" => ENABLED Finish
    /\ pc = "exc_run" => ENABLED RunExcept

\* The run has returned although its 'finished' event met a full queue.
C14_Witness ==
    /\ pc = "returned"
    /\ hasQueue
    /\ Len(chan.q) = QueueSize
    /\ chan.drop["finished"] = 1

\* C15: a call of queue_fatal_event sets error and clears running and
\* publishes one 'error' event; from then on no event is published and the
\* pipeline only waits for the queue and terminates; it terminates only
\* from that wait and only once the consumer has emptied the queue.
C15_FatalAbortOrder ==
    [][/\ fatals' > fatals =>
             /\ error' /\ ~running'
             /\ chan'.pub["error"] + chan'.drop["error"]
                   = chan.pub["error"] + chan.drop["error"] + 1
       /\ fatals > 0 =>
             /\ chan'.pub = chan.pub /\ chan'.drop = chan.drop
             /\ pc' \in {"fatal_join", "exited"}
       /\ (pc' = "exited" /\ pc # "exited") =>
             (pc = "fatal_join" /\ chan.q = <<>>)]_vars

\* C16: a run in which a command of configure_system run inside the chroot
\* could not be spawned or timed out ends FAILED.
C16_ChrootFailureIsFatal ==
    (/\ Terminated
     /\ injected \in {"OSError", "TimeoutExpired"}
     /\ "CONFIGURE_SYSTEM" \in Range(stages)
     /\ "CONFIGURE_SYSTEM" \notin completed
     /\ "INSTALL_BOOTLOADER" \notin Range(stages)) => FailedState

\* C17: in advanced mode, once the root and boot mounts have succeeded, the
\* MOUNT_TARGET stage completes whichever of the other mounts and the swapon
\* failed: every other partition that did not fail is mounted, the swap is
\* active unless its swapon failed, and as long as no stage raises the run
\* is not aborted.
C17_OptionalMountFailuresTolerated ==
    /\ (method = "advanced" /\ stages = <<"MOUNT_TARGET">> /\ injected = "none") =>
          /\ pc = "prep_dirs"
          /\ "MOUNT_TARGET" \in completed
          /\ mount_warn \subseteq OtherPartitions(mount_devices) \cup {"swap"}
          /\ \A p \in OtherPartitions(mount_devices) \ mount_warn :
                mount_info(Join(DEST_DIR, p))
          /\ ("swap" \in DOMAIN mount_devices /\ "swap" \notin mount_warn) =>
                swap_partition(mount_devices) \in mounted
    /\ (mount_warn # {} /\ injected = "none") =>
          /\ ~error
          /\ fatals = 0
          /\ pc \notin {"exc_run", "fatal_join", "exited", "crashed"}

\* install_system is about to start although the mount of /home failed; the
\* swap, which comes after it in the loop, was still activated.
C17_Witness ==
    /\ pc = "install_system"
    /\ method = "advanced"
    /\ mount_warn = {"/home"}
    /\ swap_partition(mount_devices) \in mounted
    /\ ~mount_info(Join(DEST_DIR, "/home"))

\* ------------------------------------------------------------ the copy job
\* File counts an rsync progress record can carry, the offsets a job can be
\* given (0 for the first job, the final count of the first for the
\* second), and the totals the indexing pass can have computed.
FileCounts == {0, 40, 100, 200}
Offsets == {0, 40, 100}
Totals == {100, 200}

\* The lines of `rsync -ar --progress`: a transfer record that ends in
\* "(xfr#N, ir-chk=rem/tot)", one that ends in "(xfr#N, to-chk=rem/tot)",
\* whose numbers nothing reads, and a file name.
Lines ==
    {l \in [kind : {"ir-chk"}, rem : FileCounts, tot : FileCounts] :
        l.rem <= l.tot}
    \cup {[kind |-> "to-chk", rem |-> 40, tot |-> 100],
          [kind |-> "filename", rem |-> 0, tot |-> 0]}

NoLine == [kind |-> "none", rem |-> 0, tot |-> 0]

\* re.findall(r'xfr#(\d+), ir-chk=(\d+)/(\d+)', line): the records of the
\* line that match.
re_findall(line) == IF line.kind = "ir-chk" THEN <<line>> ELSE <<>>

\* num_files_copied that leaves the job's offset out.
FilesCopiedMutant(m, offset) == m.tot - m.rem

\* num_files_copied = num_files_total_local - num_files_remaining + offset
FilesCopied(m, offset) == m.tot - m.rem + offset

\* Coalescing that lets every count through.
CoalescedMutant(num_files) == TRUE

\* num_files_copied % 100 == 0
Coalesced(num_files) == num_files % CoalesceFactor = 0

\* float(num_files) / float(total_files), kept as numerator and denominator.
Ratio(num_files, total_files) == <<num_files, total_files>>

\* FileCopyThread.update_progress
update_progress(num_files) ==
    /\ percents' = Append(percents, Ratio(num_files, job.total_files))
    /\ chan' = queue_event(chan, "percent")

\* A FileCopyThread that has been constructed and started by an
\* InstallationProcess.
InitCopy ==
    /\ method = "automatic"
    /\ hasQueue \in BOOLEAN
    /\ efi = FALSE
    /\ install_bootloader = FALSE
    /\ mount_devices = <<>>
    /\ running = TRUE
    /\ error = FALSE
    /\ special_dirs_mounted = FALSE
    /\ pc = "copy"
    /\ exc = ""
    /\ chan = queue_event(EmptyChan, "info")
    /\ mounted = {}
    /\ stages = <<>>
    /\ stage_open = ""
    /\ cleanups = 0
    /\ umount_log = <<>>
    /\ timezone_done = "False"
    /\ user_info_done = "False"
    /\ mkinitcpio_done = FALSE
    /\ ufail = 0
    /\ completed = {}
    /\ fatals = 0
    /\ injected = "none"
    /\ mount_log = <<>>
    /\ umount_res = NoUmounts
    /\ mount_warn = {}
    /\ calls = <<>>
    /\ \E o \in Offsets, t \in Totals :
         /\ job = [state |-> "running", offset |-> o, total_files |-> t,
                   num_files_copied |-> 0, nread |-> 0, line |-> NoLine,
                   proc |-> "active", signals |-> 0, base |-> 0]
         /\ our_total = t
    /\ percents = <<>>
    /\ old_job = NoJob
    /\ NoFstab
    /\ chroot_log = <<>>

\* The lines the jobs have read so far.
LinesRead == job.nread + (IF old_job = NoJob THEN 0 ELSE old_job.nread)

\* One pass of the loop of FileCopyThread.run: a line is read from rsync.
ReadLine ==
    /\ job.state = "running"
    /\ LinesRead < MaxLines
    /\ \E line \in Lines :
         LET m == re_findall(line)
             n == IF m # <<>> THEN FilesCopied(m[1], job.offset)
                  ELSE job.num_files_copied
         IN /\ job' = [job EXCEPT !.nread = @ + 1, !.line = line,
                                  !.num_files_copied = n]
            /\ IF m # <<>> /\ Coalesced(n)
               THEN update_progress(n)
               ELSE UNCHANGED <<chan, percents>>
    /\ UNCHANGED <<inputs, mount_devices, flags, special_dirs_mounted, pc,
                   mounted, hist, sett, exc, trace, mount_log, umount_res,
                   mount_warn, calls, old_job, our_total, chroot_log,
                   fst>>

\* rsync has exited and its output is read up: readline returns b'', the
\* loop ends, the count becomes the offset and run() returns, which ends
\* the life of its local variables.
EndOfOutput ==
    /\ job.state = "running"
    /\ job.proc = "exited"
    /\ job' = [job EXCEPT !.offset = job.num_files_copied, !.state = "done",
                           !.line = NoLine]
    /\ UNCHANGED <<inputs, mount_devices, flags, special_dirs_mounted, pc,
                   chan, mounted, hist, sett, exc, trace, mount_log,
                   umount_res, mount_warn, calls, percents, old_job,
                   our_total, chroot_log,
                   fst>>

\* The rsync process of the job exits.
ProcessExit ==
    /\ job.state \in {"created", "running"}
    /\ job.proc = "active"
    /\ job' = [job EXCEPT !.proc = "exited"]
    /\ UNCHANGED <<inputs, mount_devices, flags, special_dirs_mounted, pc,
                   chan, mounted, hist, sett, exc, trace, mount_log,
                   umount_res, mount_warn, calls, percents, old_job,
                   our_total, chroot_log,
                   fst>>

\* self.process.poll(): None while the process runs.
poll(j) == IF j.proc = "active" THEN "None" ELSE "returncode"

\* kill() that signals the process whatever poll() returned.
kill_mutant(j) == [j EXCEPT !.signals = @ + 1]

\* FileCopyThread.kill
kill(j) == IF poll(j) = "None" THEN [j EXCEPT !.signals = @ + 1] ELSE j

\* A client calls kill() on the job.
CallKill ==
    /\ job.state \in {"running", "done"}
    /\ Len(calls) < MaxCalls
    /\ calls' = Append(calls, "kill")
    /\ job' = kill(job)
    /\ UNCHANGED <<inputs, mount_devices, flags, special_dirs_mounted, pc,
                   chan, mounted, hist, sett, exc, trace, mount_log,
                   umount_res, mount_warn, percents, old_job, our_total, chroot_log,
                   fst>>

NextCopy ==
    \/ ReadLine
    \/ EndOfOutput
    \/ ProcessExit
    \/ CallKill
    \/ Consume

SpecCopy == InitCopy /\ [][NextCopy]_vars

\* C18: a line that carries an ir-chk pair (remaining, total) sets the count
\* of the job to total - remaining + offset and publishes one 'percent'
\* event of value count / T exactly when the count is a multiple of 100;
\* any other line publishes nothing and leaves the count alone.
C18_ProgressLine ==
    [][job'.nread = job.nread + 1 =>
         LET l == job'.line
             copied == l.tot - l.rem + job.offset
         IN IF l.kind = "ir-chk"
            THEN /\ job'.num_files_copied = copied
                 /\ IF copied % 100 = 0
                    THEN /\ percents' = Append(percents,
                                               <<copied, job.total_files>>)
                         /\ chan' = queue_event(chan, "percent")
                    ELSE percents' = percents /\ chan' = chan
            ELSE /\ job'.num_files_copied = job.num_files_copied
                 /\ percents' = percents
                 /\ chan' = chan]_vars

\* A job with offset 100 and T = 200 whose second line, ir-chk=0/100, has
\* published 200/200 after a first line that published nothing.
C18_Witness ==
    /\ job.state = "running"
    /\ job.offset = 100 /\ job.total_files = 200
    /\ job.nread = 2
    /\ job.line = [kind |-> "ir-chk", rem |-> 0, tot |-> 100]
    /\ job.num_files_copied = 200
    /\ percents = << <<200, 200>> >>

\* The job of the scenario reads its line: offset 0, T = 200, ir-chk=40/100.
ScenarioLine ==
    /\ job'.nread = job.nread + 1
    /\ job.offset = 0
    /\ job.total_files = 200
    /\ job'.line = [kind |-> "ir-chk", rem |-> 40, tot |-> 100]

\* C19 as stated: the job with offset 0 and T = 200 that reads ir-chk=40/100
\* emits the ratio (100 - 40 + 0) / 200 = 0.30.
C19_Emits030 ==
    [][ScenarioLine =>
         /\ Len(percents') = Len(percents) + 1
         /\ LET r == percents'[Len(percents')] IN r[1] * 100 = 30 * r[2]]_vars

\* C19, amended: the job with offset 0 and T = 200 that reads ir-chk=40/100
\* computes the count 60 and, 60 not being a multiple of 100, emits nothing
\* for the line; the same job emits 100/200 = 0.50 on reading ir-chk=0/100.
C19_ScenarioEmitsNothing ==
    [][/\ ScenarioLine =>
            /\ job'.num_files_copied = 60
            /\ percents' = percents
            /\ chan' = chan
       /\ (/\ job'.nread = job.nread + 1
           /\ job.offset = 0
           /\ job.total_files = 200
           /\ job'.line = [kind |-> "ir-chk", rem |-> 0, tot |-> 100]) =>
            /\ job'.num_files_copied = 100
            /\ percents' = Append(percents, <<100, 200>>)]_vars

\* The scenario's line was the first the job read, and nothing was emitted.
C19_Witness ==
    /\ job.state = "running"
    /\ job.offset = 0 /\ job.total_files = 200
    /\ job.nread = 1
    /\ job.line = [kind |-> "ir-chk", rem |-> 40, tot |-> 100]
    /\ job.num_files_copied = 60
    /\ percents = <<>>

\* a / b <= c / d for ratios with positive denominators.
RatioLeq(x, y) == x[1] * y[2] <= y[1] * x[2]

\* C20: the 'percent' values one copy job has published never decrease.
C20_PercentsMonotonic ==
    \A i \in 1..Len(percents) : \A j \in i..Len(percents) :
        RatioLeq(percents[i], percents[j])

\* ------------------------------------------------------ the extraction stage
\* install_system from line 598 on: the images are mounted and indexed,
\* our_total is known, no copy job exists yet.
InitExtract ==
    /\ method = "automatic"
    /\ hasQueue \in BOOLEAN
    /\ efi = FALSE
    /\ install_bootloader = FALSE
    /\ mount_devices = <<>>
    /\ running = TRUE
    /\ error = FALSE
    /\ special_dirs_mounted = FALSE
    /\ pc = "ex_new"
    /\ exc = ""
    /\ chan = queue_event(EmptyChan, "info")
    /\ mounted = {}
    /\ stages = <<>>
    /\ stage_open = ""
    /\ cleanups = 0
    /\ umount_log = <<>>
    /\ timezone_done = "False"
    /\ user_info_done = "False"
    /\ mkinitcpio_done = FALSE
    /\ ufail = 0
    /\ completed = {}
    /\ fatals = 0
    /\ injected = "none"
    /\ mount_log = <<>>
    /\ umount_res = NoUmounts
    /\ mount_warn = {}
    /\ calls = <<>>
    /\ job = NoJob
    /\ percents = <<>>
    /\ old_job = NoJob
    /\ NoFstab
    /\ chroot_log = <<>>
    /\ our_total \in Totals

\* FileCopyThread.__init__: the rsync process is spawned, the thread is not
\* started yet.  `base` is the number of 'percent' events published before.
FileCopyThread(total_files, offset) ==
    [state |-> "created", offset |-> offset, total_files |-> total_files,
     num_files_copied |-> 0, nread |-> 0, line |-> NoLine,
     proc |-> "active", signals |-> 0, base |-> Len(percents)]

\* Lines 598-601 and 607-611: the 'info' event and the construction of the
\* next job; the second job is given t.offset.  Popen can raise OSError.
ExtractNewJob ==
    /\ pc = "ex_new"
    /\ chan' = queue_event(chan, "info")
    /\ \/ /\ job' = FileCopyThread(our_total,
                                   IF job = NoJob THEN 0 ELSE job.offset)
          /\ old_job' = job
          /\ pc' = "ex_start"
       \/ /\ pc' = "ex_failed"
          /\ UNCHANGED <<job, old_job>>
    /\ UNCHANGED <<inputs, mount_devices, flags, special_dirs_mounted,
                   mounted, hist, sett, exc, trace, mount_log, umount_res,
                   mount_warn, calls, percents, our_total, chroot_log,
                   fst>>

\* t.start()
ExtractStartJob ==
    /\ pc = "ex_start"
    /\ job' = [job EXCEPT !.state = "running"]
    /\ pc' = "copy"
    /\ UNCHANGED <<inputs, mount_devices, flags, special_dirs_mounted, chan,
                   mounted, hist, sett, exc, trace, mount_log, umount_res,
                   mount_warn, calls, percents, old_job, our_total, chroot_log,
                   fst>>

\* join() that returns at once.
joined_mutant(j) == TRUE

\* t.join() returns once run() has returned.
joined(j) == j.state = "done"

\* t.join(), lines 603 and 613.
ExtractJoinJob ==
    /\ pc = "copy"
    /\ joined(job)
    /\ pc' = IF old_job = NoJob THEN "ex_new" ELSE "ex_finish"
    /\ UNCHANGED <<inputs, mount_devices, flags, special_dirs_mounted, chan,
                   mounted, hist, sett, exc, trace, mount_log, umount_res,
                   mount_warn, calls, job, percents, old_job, our_total, chroot_log,
                   fst>>

\* Lines 618-619: the forced 'percent' 1.00 and the 'progress-info' event.
ExtractFinish ==
    /\ pc = "ex_finish"
    /\ percents' = Append(percents, Ratio(1, 1))
    /\ chan' = queue_events(chan, <<"percent", "progress-info">>)
    /\ pc' = "ex_done"
    /\ UNCHANGED <<inputs, mount_devices, flags, special_dirs_mounted,
                   mounted, hist, sett, exc, trace, mount_log, umount_res,
                   mount_warn, calls, job, old_job, our_total, chroot_log,
                   fst>>

NextExtract ==
    \/ ExtractNewJob
    \/ ExtractStartJob
    \/ ReadLine
    \/ ProcessExit
    \/ EndOfOutput
    \/ ExtractJoinJob
    \/ ExtractFinish
    \/ Consume

SpecExtract == InitExtract /\ [][NextExtract]_vars

\* A job that holds resources: its process is spawned and its output loop
\* has not finished.
Active(j) == j.state \in {"created", "running"}

\* C21: once the extraction stage has completed, both copy jobs have
\* finished, so that neither publishes any more, and the last 'percent'
\* value published is exactly 1.0.
C21_FinalPercentIsOne ==
    pc = "ex_done" =>
        /\ old_job.state = "done" /\ job.state = "done"
        /\ percents # <<>>
        /\ LET r == percents[Len(percents)] IN r[2] > 0 /\ r[1] = r[2]

\* The stage has completed; the second job ended on a count that is no
\* multiple of 100 and the value published before the forced one is below 1.
C21_Witness ==
    /\ pc = "ex_done"
    /\ job.offset % 100 # 0
    /\ Len(percents) >= 2
    /\ LET r == percents[Len(percents) - 1] IN r[1] < r[2]
    /\ percents[Len(percents)] = <<1, 1>>

\* C22: every 'percent' value published is in the closed interval [0, 1].
C22_PercentInUnitInterval ==
    \A i \in 1..Len(percents) :
        0 <= percents[i][1] /\ percents[i][1] <= percents[i][2]

\* C23: at most one copy job is active at any time: when a second job
\* exists the first has finished its loop; a job is constructed and started
\* by the controller and, while its thread runs, the controller is in
\* join().
C23_OneActiveJob ==
    /\ ~(Active(old_job) /\ Active(job))
    /\ old_job # NoJob => old_job.state = "done"
    /\ job.state = "created" => pc = "ex_start"
    /\ job.state = "running" => pc = "copy"

\* The second job is reading rsync's output, the first has finished.
C23_Witness ==
    /\ old_job # NoJob /\ old_job.state = "done"
    /\ job.state = "running" /\ job.nread > 0
    /\ pc = "copy"

\* C24: the second job starts with the offset the first one ended with, and
\* no 'percent' value it publishes is lower than the last one the first job
\* published.
C24_ProgressContinues ==
    (old_job # NoJob /\ pc \in {"ex_start", "copy", "ex_finish"}) =>
        /\ Active(job) => job.offset = old_job.offset
        /\ job.base > old_job.base =>
              \A i \in (job.base + 1)..Len(percents) :
                  RatioLeq(percents[job.base], percents[i])

\* C25: kill() sends one signal to the rsync process if that process is
\* still running, and sends nothing and changes nothing if it has exited.
C25_KillOnlyIfActive ==
    [][calls' = Append(calls, "kill") =>
         /\ job.proc = "active" => job' = [job EXCEPT !.signals = @ + 1]
         /\ job.proc = "exited" => job' = job
         /\ UNCHANGED <<chan, percents, pc>>]_vars

\* kill() was called twice, before and after rsync exited: one signal.
C25_Witness ==
    /\ calls = <<"kill", "kill">>
    /\ job.proc = "exited"
    /\ job.signals = 1

\* ------------------------------------------- the waits of configure_system
\* What settings.get returns for a key that has not been set.
Unset == "None"

\* configure_system at line 1174, with each readiness flag false or not
\* yet set.
InitSettings ==
    /\ method = "automatic"
    /\ hasQueue \in BOOLEAN
    /\ efi = FALSE
    /\ install_bootloader = FALSE
    /\ mount_devices = <<>>
    /\ running = TRUE
    /\ error = FALSE
    /\ special_dirs_mounted = FALSE
    /\ pc = "cfg_wait_tz"
    /\ exc = ""
    /\ chan = queue_event(EmptyChan, "info")
    /\ mounted = {}
    /\ stages = <<>>
    /\ stage_open = ""
    /\ cleanups = 0
    /\ umount_log = <<>>
    /\ timezone_done \in {"False", Unset}
    /\ user_info_done \in {"False", Unset}
    /\ mkinitcpio_done = FALSE
    /\ ufail = 0
    /\ completed = {}
    /\ fatals = 0
    /\ injected = "none"
    /\ mount_log = <<>>
    /\ umount_res = NoUmounts
    /\ mount_warn = {}
    /\ calls = <<>>
    /\ job = NoJob
    /\ percents = <<>>
    /\ old_job = NoJob
    /\ NoFstab
    /\ chroot_log = <<>>
    /\ our_total = 0

NextSettings ==
    \/ SetTimezoneDone
    \/ SetUserInfoDone
    \/ WaitTimezone
    \/ SetTimezone
    \/ WaitUserInfo
    \/ CreateUser
    \/ Consume

SpecSettings == InitSettings /\ [][NextSettings]_vars

\* C26: whether a flag starts false or not yet set, the pipeline sets the
\* timezone only once timezone_done is true and creates the user only once
\* user_info_done is true.
C26_WaitsForSettings ==
    [][/\ (pc = "cfg_tz" /\ pc' # "cfg_tz") => timezone_done = "True"
       /\ (pc = "cfg_user" /\ pc' # "cfg_user") => user_info_done = "True"]_vars

\* ---------------------------------------------------------- the fstab file
\* `a in b` for two strings.
In(a, b) ==
    \E i \in 1..(Len(b) - Len(a) + 1) : SubSeq(b, i, i + Len(a) - 1) = a

\* fs.get_info(partition_path): every partition has a UUID of its own.
get_info(partition_path) == [UUID |-> "uuid:" \o partition_path]

\* The filesystem types the partitioner assigns.
Formats == {"ext4", "ext3", "btrfs", "f2fs", "xfs", "jfs", "fat32", "swap"}

\* The DeviceMaps auto_fstab is given: the scenario's, one with a /home on
\* a mapped volume, one with a partition that has no mount point, one with
\* the root and a partition without mount point on mapped volumes.
FstabDeviceMaps ==
    {[p \in {"/", "/boot", "swap"} |-> DeviceTable[p]],
     [p \in {"/", "/home"} |->
         IF p = "/" THEN "/dev/sda2" ELSE "/dev/mapper/crypthome"],
     [p \in {"/", ""} |-> IF p = "/" THEN "/dev/sda2" ELSE "/dev/sda4"],
     [p \in {"/", ""} |->
         IF p = "/" THEN "/dev/mapper/cryptroot" ELSE "/dev/mapper/cryptdata"]}

\* The FilesystemMaps for a DeviceMap: a type for some of its devices.
FilesystemMaps(md) ==
    UNION {[D -> Formats] : D \in SUBSET {md[p] : p \in DOMAIN md}}

\* The SsdSets: none, a whole disk, the root and the swap partition.
SsdSets == {{}, {"/dev/sda"}, {"/dev/sda2", "/dev/sda3"}}

\* The LUKS settings: off, on with a password, on with a keyfile, on with
\* LVM.
LuksSettings ==
    {[use_luks |-> FALSE, use_lvm |-> FALSE, luks_root_password |-> ""],
     [use_luks |-> TRUE, use_lvm |-> FALSE, luks_root_password |-> "secret"],
     [use_luks |-> TRUE, use_lvm |-> FALSE, luks_root_password |-> ""],
     [use_luks |-> TRUE, use_lvm |-> TRUE, luks_root_password |-> "secret"]}

\* Lines 762-769.
FstabHeader ==
    <<"# /etc/fstab: static file system information.",
      "#",
      "# Use 'blkid' to print the universally unique identifier for a",
      "# device; this may be used with UUID= as a more robust way to name devices",
      "# that works even if disks are added and removed. See fstab(5).",
      "#",
      "# <file system> <mount point>   <type>  <options>       <dump>  <pass>",
      "#">>

\* Lines 861-878 with a table that gives SSD options to ext4 only.
MountOptionsMutant(myfmt, is_ssd) ==
    IF ~is_ssd
    THEN IF In("btrfs", myfmt)
         THEN "defaults,rw,relatime,space_cache,autodefrag,inode_cache"
         ELSE IF In("f2fs", myfmt) THEN "defaults,rw,noatime"
         ELSE IF In("ext3", myfmt) \/ In("ext4", myfmt)
              THEN "defaults,rw,relatime,data=ordered"
         ELSE "defaults,rw,relatime"
    ELSE IF myfmt = "ext4" THEN "defaults,rw,noatime,discard"
         ELSE "defaults,rw,noatime"

\* Lines 861-878: the mount options of an ordinary entry.
MountOptions(myfmt, is_ssd) ==
    IF ~is_ssd
    THEN IF In("btrfs", myfmt)
         THEN "defaults,rw,relatime,space_cache,autodefrag,inode_cache"
         ELSE IF In("f2fs", myfmt) THEN "defaults,rw,noatime"
         ELSE IF In("ext3", myfmt) \/ In("ext4", myfmt)
              THEN "defaults,rw,relatime,data=ordered"
         ELSE "defaults,rw,relatime"
    ELSE IF myfmt = "ext4" \/ myfmt = "jfs" \/ myfmt = "xfs"
         THEN "defaults,rw,noatime,discard"
         ELSE IF myfmt = "btrfs"
              THEN "defaults,rw,noatime,compress=lzo,ssd,discard,space_cache,autodefrag,inode_cache"
         ELSE "defaults,rw,noatime"

\* Lines 788-791: the options of a swap entry.
SwapOptions(partition_path) ==
    IF partition_path \in ssd THEN "defaults,discard" ELSE "defaults"

\* Lines 855-858.
IsSsd(partition_path) == \E ssd_device \in ssd : In(ssd_device, partition_path)

\* The result of the loop body that skips nothing it should not.
SkipUnformattedMutant(partition_path) == FALSE

\* Lines 779-783: the partition has no filesystem defined.
SkipUnformatted(partition_path) == partition_path \notin DOMAIN fs_devices

\* The key field of the home volume that names the keyfile when a password
\* is set.
home_keyfile_mutant(password) ==
    IF Len(password) > 0 THEN "/etc/luks-keys/home" ELSE "none"

\* Lines 802-808: the key field of the crypttab entry of the home volume.
home_keyfile(password) ==
    IF Len(password) > 0 THEN "none" ELSE "/etc/luks-keys/home"

\* The check order that gives 1 to the root whatever its filesystem.
chk_mutant(mount_point, myfmt) == IF mount_point = "/" THEN "1" ELSE "0"

\* Lines 880-885: the check order of an ordinary entry.
chk(mount_point, myfmt) ==
    IF mount_point = "/" /\ myfmt \notin {"btrfs", "f2fs"} THEN "1" ELSE "0"

\* Lines 775-892: the body of the loop for one mount point.  st holds
\* all_lines, what was appended to crypttab, and the two settings written.
FstabEntry(st, mount_point) ==
    LET partition_path == mount_devices[mount_point]
        uuid == get_info(partition_path).UUID
        myfmt == IF partition_path \in DOMAIN fs_devices
                 THEN fs_devices[partition_path] ELSE "ext4"
        fmt == IF In("fat", myfmt) THEN "vfat" ELSE myfmt
        seen == [st EXCEPT !.btrfs = @ \/ In("btrfs", fmt)]
    IN
    IF SkipUnformatted(partition_path) THEN st
    ELSE IF In("swap", myfmt)
    THEN [st EXCEPT !.all_lines = Append(@,
            "UUID=" \o uuid \o " swap swap " \o SwapOptions(partition_path)
            \o " 0 0")]
    ELSE IF In("/home", mount_point) /\ method = "automatic"
            /\ use_luks /\ ~use_lvm
    THEN [st EXCEPT
            !.crypttab = Append(@,
                "cryptAntergosHome /dev/disk/by-uuid/" \o uuid \o " "
                \o home_keyfile(luks_root_password) \o " luks"),
            !.all_lines = Append(@,
                "/dev/mapper/cryptAntergosHome " \o mount_point \o " " \o myfmt
                \o " defaults 0 0")]
    ELSE IF method = "advanced" /\ mount_point # "/" /\ use_luks
            /\ In("/dev/mapper", partition_path)
    THEN [st EXCEPT
            !.crypttab = Append(@,
                SubSeq(partition_path, Len("/dev/mapper/") + 1,
                       Len(partition_path))
                \o " /dev/disk/by-uuid/" \o uuid \o " none luks"),
            !.all_lines = Append(@,
                partition_path \o " " \o mount_point \o " " \o myfmt
                \o " defaults 0 0")]
    ELSE IF mount_point = "" THEN seen
    ELSE [seen EXCEPT
            !.ruuid = IF mount_point = "/" THEN uuid ELSE @,
            !.all_lines = Append(@,
                "UUID=" \o uuid \o " " \o mount_point \o " " \o fmt \o " "
                \o MountOptions(fmt, IsSsd(partition_path)) \o " 0 "
                \o chk(mount_point, fmt))]

RECURSIVE FstabLoop(_, _)
FstabLoop(st, mount_points) ==
    IF mount_points = <<>> THEN st
    ELSE FstabLoop(FstabEntry(st, Head(mount_points)), Tail(mount_points))

\* fstab written by appending to the file that is there.
FstabWrittenMutant(old, all_lines) == old \o all_lines

\* Lines 899-903: open(fstab_path, 'w') and the write of the joined lines.
FstabWritten(old, all_lines) == all_lines

\* auto_fstab (lines 759-905), up to the return or to an OSError of
\* open(fstab_path, 'w').
auto_fstab ==
    LET st == FstabLoop([all_lines |-> FstabHeader, crypttab |-> crypttab,
                         btrfs |-> btrfs, ruuid |-> ruuid],
                        Ordered(DOMAIN mount_devices))
        all_lines == Append(st.all_lines,
                            "tmpfs /tmp tmpfs defaults,noatime,mode=1777 0 0")
    IN /\ crypttab' = st.crypttab
       /\ btrfs' = st.btrfs
       /\ ruuid' = st.ruuid
       /\ \/ /\ fstab' = FstabWritten(fstab, all_lines)
             /\ fstab_runs' = fstab_runs + 1
             /\ UNCHANGED <<pc, exc>>
          \/ /\ pc' = "exc_try"
             /\ exc' = "OSError"
             /\ UNCHANGED <<fstab, fstab_runs>>

\* An InstallationProcess constructed with its maps and settings, before
\* auto_fstab is called.
InitFstab ==
    /\ method \in Methods
    /\ hasQueue = FALSE
    /\ efi = FALSE
    /\ install_bootloader = FALSE
    /\ mount_devices \in FstabDeviceMaps
    /\ running = TRUE
    /\ error = FALSE
    /\ special_dirs_mounted = FALSE
    /\ pc = "fstab"
    /\ exc = ""
    /\ chan = queue_event(EmptyChan, "info")
    /\ mounted = {}
    /\ stages = <<>>
    /\ stage_open = ""
    /\ cleanups = 0
    /\ umount_log = <<>>
    /\ timezone_done = "False"
    /\ user_info_done = "False"
    /\ mkinitcpio_done = FALSE
    /\ ufail = 0
    /\ completed = {}
    /\ fatals = 0
    /\ injected = "none"
    /\ mount_log = <<>>
    /\ umount_res = NoUmounts
    /\ mount_warn = {}
    /\ calls = <<>>
    /\ job = NoJob
    /\ percents = <<>>
    /\ old_job = NoJob
    /\ our_total = 0
    /\ fs_devices \in FilesystemMaps(mount_devices)
    /\ ssd \in SsdSets
    /\ \E l \in LuksSettings :
         /\ use_luks = l.use_luks
         /\ use_lvm = l.use_lvm
         /\ luks_root_password = l.luks_root_password
    /\ fstab = <<>>
    /\ crypttab = <<>>
    /\ btrfs = FALSE
    /\ ruuid = ""
    /\ fstab_runs = 0
    /\ chroot_log = <<>>

\* self.auto_fstab() is called.
CallAutoFstab ==
    /\ pc = "fstab"
    /\ fstab_runs < MaxFstabRuns
    /\ auto_fstab
    /\ UNCHANGED <<inputs, mount_devices, flags, special_dirs_mounted, chan,
                   mounted, hist, sett, trace, mount_log, umount_res,
                   mount_warn, calls, job, percents, old_job, our_total,
                   chroot_log, fs_devices, ssd, use_luks, use_lvm,
                   luks_root_password>>

NextFstab == CallAutoFstab

SpecFstab == InitFstab /\ [][NextFstab]_vars

\* The lines of a file that name the partition, by UUID or by path.
LinesOf(file, partition_path) ==
    {i \in 1..Len(file) : In(partition_path \o " ", file[i])}

C28_FstabIdempotent ==
    [][(fstab_runs >= 1 /\ fstab_runs' = fstab_runs + 1) => fstab' = fstab]_vars

\* Two runs in automatic mode with an encrypted /home: crypttab got its line
\* twice, the fstab is the one of the first run.
C28_Witness ==
    /\ fstab_runs = 2
    /\ Len(crypttab) = 2
    /\ Len(fstab) = Len(FstabHeader) + 3
    /\ btrfs

\* C29: the line of a swap partition carries 'discard' exactly when its
\* device is a member of ssd, and the line of any other partition whose
\* device is not a member of ssd carries neither 'discard' nor 'ssd'.
C29_DiscardOnlyForSsdMembers ==
    fstab_runs >= 1 =>
        \A p \in DOMAIN mount_devices :
            LET dev == mount_devices[p] IN
            \A i \in LinesOf(fstab, dev) :
                /\ In(" swap swap ", fstab[i]) =>
                      (In("discard", fstab[i]) <=> dev \in ssd)
                /\ dev \notin ssd =>
                      ~In("discard", fstab[i]) /\ ~In(",ssd,", fstab[i])

\* The options of the filesystem x SSD table.
TableOptions(type, solid) ==
    CASE ~solid /\ type = "btrfs" ->
            "defaults,rw,relatime,space_cache,autodefrag,inode_cache"
      [] ~solid /\ type = "f2fs" -> "defaults,rw,noatime"
      [] ~solid /\ type \in {"ext3", "ext4"} ->
            "defaults,rw,relatime,data=ordered"
      [] ~solid /\ type \notin {"btrfs", "f2fs", "ext3", "ext4"} ->
            "defaults,rw,relatime"
      [] solid /\ type \in {"ext4", "jfs", "xfs"} ->
            "defaults,rw,noatime,discard"
      [] solid /\ type = "btrfs" ->
            "defaults,rw,noatime,compress=lzo,ssd,discard,space_cache,autodefrag,inode_cache"
      [] solid /\ type \notin {"ext4", "jfs", "xfs", "btrfs"} ->
            "defaults,rw,noatime"

\* An entry that is neither a swap nor one of the two mapped LUKS entries
\* and has a mount point.
Ordinary(p) ==
    /\ mount_devices[p] \in DOMAIN fs_devices
    /\ fs_devices[mount_devices[p]] # "swap"
    /\ p # ""
    /\ ~(p = "/home" /\ method = "automatic" /\ use_luks /\ ~use_lvm)
    /\ ~(/\ method = "advanced" /\ p # "/" /\ use_luks
         /\ In("/dev/mapper", mount_devices[p]))

\* The lines of the fstab between the header and the tmpfs line.
EntryLines == (Len(FstabHeader) + 1)..(Len(fstab) - 1)

\* The string s begins with the string pre.
StartsWith(s, pre) == Len(s) >= Len(pre) /\ SubSeq(s, 1, Len(pre)) = pre

\* C30: the fstab holds for every ordinary entry one line whose fourth
\* field is the table's options for its filesystem type (vfat for fat32)
\* and for whether the partition lies on a device of ssd, and the tmpfs line
\* is the last line of the file.
C30_OptionsTable ==
    fstab_runs >= 1 =>
        /\ fstab[Len(fstab)] = "tmpfs /tmp tmpfs defaults,noatime,mode=1777 0 0"
        /\ \A p \in DOMAIN mount_devices :
              Ordinary(p) =>
                 LET dev == mount_devices[p]
                     type == IF fs_devices[dev] = "fat32" THEN "vfat"
                             ELSE fs_devices[dev]
                     solid == \E d \in ssd : In(d, dev)
                     id == "UUID=" \o get_info(dev).UUID \o " " \o p \o " "
                 IN /\ Cardinality({i \in EntryLines :
                                      StartsWith(fstab[i], id)}) = 1
                    /\ \E i \in EntryLines :
                          StartsWith(fstab[i],
                                     id \o type \o " "
                                     \o TableOptions(type, solid) \o " 0 ")

\* The root is btrfs on a device of ssd and /boot is fat32 on no device of
\* ssd: the compress=lzo variant and, for vfat, the plain options.
C30_Witness ==
    /\ fstab_runs = 1
    /\ ssd = {"/dev/sda2", "/dev/sda3"}
    /\ DOMAIN mount_devices = {"/", "/boot", "swap"}
    /\ DOMAIN fs_devices = {"/dev/sda1", "/dev/sda2", "/dev/sda3"}
    /\ fs_devices["/dev/sda2"] = "btrfs"
    /\ fs_devices["/dev/sda1"] = "fat32"
    /\ fstab[Len(FstabHeader) + 1] =
          "UUID=uuid:/dev/sda2 / btrfs defaults,rw,noatime,compress=lzo,ssd,discard,space_cache,autodefrag,inode_cache 0 0"
    /\ fstab[Len(FstabHeader) + 2] =
          "UUID=uuid:/dev/sda1 /boot vfat defaults,rw,relatime 0 0"

\* The string s ends with the string suf.
EndsWith(s, suf) ==
    Len(s) >= Len(suf) /\ SubSeq(s, Len(s) - Len(suf) + 1, Len(s)) = suf

\* The root has a filesystem defined that is not swap.
RootFormatted ==
    /\ mount_devices["/"] \in DOMAIN fs_devices
    /\ fs_devices[mount_devices["/"]] # "swap"

\* C31: in the fstab that auto_fstab wrote the last field of a line is 1
\* exactly when the line is the one of the root and the root's filesystem is
\* neither btrfs nor f2fs, every other line below the header (the root on
\* btrfs or f2fs, the other mount points, swap, the mapped volumes, tmpfs)
\* ends in 0, and the settings hold the UUID of a root that has a filesystem.
C31_CheckOrder ==
    fstab_runs >= 1 =>
        LET root == "UUID=" \o get_info(mount_devices["/"]).UUID \o " / "
            checked == RootFormatted
                       /\ fs_devices[mount_devices["/"]] \notin {"btrfs", "f2fs"}
        IN /\ \A i \in (Len(FstabHeader) + 1)..Len(fstab) :
                 /\ EndsWith(fstab[i], " 1")
                        <=> (checked /\ StartsWith(fstab[i], root))
                 /\ EndsWith(fstab[i], " 1") \/ EndsWith(fstab[i], " 0")
           /\ RootFormatted =>
                 /\ \E i \in EntryLines : StartsWith(fstab[i], root)
                 /\ ruuid = get_info(mount_devices["/"]).UUID

\* An ext4 root with check order 1 next to a mapped home volume with check
\* order 0, and the root's UUID in the settings.
C31_Witness ==
    /\ fstab_runs = 1
    /\ ruuid = "uuid:/dev/sda2"
    /\ \E i, j \in EntryLines :
         /\ StartsWith(fstab[i], "UUID=uuid:/dev/sda2 / ext4 ")
         /\ EndsWith(fstab[i], " 0 1")
         /\ StartsWith(fstab[j], "/dev/mapper/cryptAntergosHome /home ")
         /\ EndsWith(fstab[j], " 0 0")

\* The sequence s in reverse.
Reversed(s) == [i \in 1..Len(s) |-> s[Len(s) + 1 - i]]

\* The last n elements of the sequence s.
LastOf(s, n) == SubSeq(s, Len(s) - n + 1, Len(s))

\* What a step appends to umount_log.
UmountRound == SubSeq(umount_log', Len(umount_log) + 1, Len(umount_log'))

\* The directories of the mount that set the flag, in mount order.
MountRound == LastOf(mount_log, IF efi THEN 5 ELSE 4)

\* C32: a chroot_umount_special_dirs that finds the flag set walks exactly
\* the directories the mount that set the flag had mounted
\* (sys/firmware/efi among them iff efi), in the order dev/pts,
\* sys/firmware/efi, sys, proc, dev: dev/pts before dev and
\* sys/firmware/efi before sys.
C32_UmountOrder ==
    [][(special_dirs_mounted /\ ~special_dirs_mounted') =>
          /\ Range(UmountRound) = Range(MountRound)
          /\ Len(UmountRound) = Len(MountRound)
          /\ UmountRound =
                IF efi
                THEN <<SpecialPath("dev/pts"), SpecialPath("sys/firmware/efi"),
                       SpecialPath("sys"), SpecialPath("proc"),
                       SpecialPath("dev")>>
                ELSE <<SpecialPath("dev/pts"), SpecialPath("sys"),
                       SpecialPath("proc"), SpecialPath("dev")>>]_vars

\* C32 as stated: the unmount walks the directories in the exact reverse of
\* the order in which they were mounted.
C32_ExactReverse ==
    [][(special_dirs_mounted /\ ~special_dirs_mounted') =>
          UmountRound = Reversed(MountRound)]_vars

\* A mount with efi followed by an unmount of its five directories.
C32_Witness ==
    /\ efi
    /\ calls = <<"mount", "umount">>
    /\ ~special_dirs_mounted
    /\ Len(mount_log) = 5
    /\ Len(umount_log) = 5
    /\ umount_log[1] = SpecialPath("dev/pts")
    /\ umount_log[5] = SpecialPath("dev")

\* C33: whenever the special_dirs_mounted flag is false, none of the special
\* directories is mounted under the target root.
C33_FlagTracksMounts ==
    ~special_dirs_mounted => mounted \cap SpecialPaths = {}

\* C34: every command run inside the target chroot ran with the special
\* directories mounted.
C34_MountPrecedesChrootCommands ==
    \A i \in 1..Len(chroot_log) : chroot_log[i][2]

\* The mount points under /home whose device has a filesystem that is not
\* swap.
FormattedHomes ==
    {p \in DOMAIN mount_devices :
        /\ In("/home", p)
        /\ mount_devices[p] \in DOMAIN fs_devices
        /\ fs_devices[mount_devices[p]] # "swap"}

\* The entries of crypttab for cryptAntergosHome.
HomeCryptEntries ==
    {i \in 1..Len(crypttab) : StartsWith(crypttab[i], "cryptAntergosHome ")}

\* The lines of the fstab whose device is /dev/mapper/cryptAntergosHome.
HomeCryptLines ==
    {i \in EntryLines : StartsWith(fstab[i], "/dev/mapper/cryptAntergosHome ")}

\* C35: after one call of auto_fstab in automatic mode with use_luks and without
\* use_lvm, every formatted mount point under /home has exactly one crypttab
\* entry for cryptAntergosHome, with key none when luks_root_password is not
\* empty and /etc/luks-keys/home otherwise, and exactly one fstab line on
\* /dev/mapper/cryptAntergosHome; nothing else, and no other configuration,
\* produces an entry for cryptAntergosHome.
C35_HomeLuks ==
    (fstab_runs = 1 /\ pc = "fstab") =>
        IF method = "automatic" /\ use_luks /\ ~use_lvm
        THEN /\ \A p \in FormattedHomes :
                  /\ Cardinality({i \in HomeCryptEntries : crypttab[i] =
                        "cryptAntergosHome /dev/disk/by-uuid/"
                        \o get_info(mount_devices[p]).UUID \o " "
                        \o (IF luks_root_password # "" THEN "none"
                            ELSE "/etc/luks-keys/home") \o " luks"}) = 1
                  /\ Cardinality({i \in HomeCryptLines : StartsWith(fstab[i],
                        "/dev/mapper/cryptAntergosHome " \o p \o " ")}) = 1
             /\ Cardinality(HomeCryptEntries) = Cardinality(FormattedHomes)
             /\ Cardinality(HomeCryptLines) = Cardinality(FormattedHomes)
        ELSE HomeCryptEntries = {} /\ HomeCryptLines = {}

\* An automatic installation with /home on LUKS and no root password: the
\* keyfile entry in crypttab and the mapped line in the fstab.
C35_Witness ==
    /\ fstab_runs = 1
    /\ method = "automatic"
    /\ crypttab = <<"cryptAntergosHome /dev/disk/by-uuid/uuid:/dev/mapper/crypthome /etc/luks-keys/home luks">>
    /\ \E i \in EntryLines :
         fstab[i] = "/dev/mapper/cryptAntergosHome /home ext4 defaults 0 0"

\* The name of the mapped volume of a device path under /dev/mapper.
VolumeName(partition_path) ==
    SubSeq(partition_path, Len("/dev/mapper/") + 1, Len(partition_path))

\* C36: after one call of auto_fstab in advanced mode with use_luks, every
\* mount point other than / whose device is under /dev/mapper and has a
\* filesystem defined has one crypttab entry "<volume> /dev/disk/by-uuid/
\* <uuid> none luks" and one fstab line on the mapped path, and crypttab has
\* no entry for the device of /.
C36_AdvancedLuks ==
    (fstab_runs = 1 /\ pc = "fstab" /\ method = "advanced" /\ use_luks) =>
        \A p \in DOMAIN mount_devices :
            LET dev == mount_devices[p] IN
            IF p = "/"
            THEN \A i \in 1..Len(crypttab) :
                    ~In(get_info(dev).UUID \o " ", crypttab[i])
            ELSE (StartsWith(dev, "/dev/mapper/") /\ dev \in DOMAIN fs_devices)
                 => /\ Cardinality({i \in 1..Len(crypttab) : crypttab[i] =
                          VolumeName(dev) \o " /dev/disk/by-uuid/"
                          \o get_info(dev).UUID \o " none luks"}) = 1
                    /\ Cardinality({i \in EntryLines :
                          StartsWith(fstab[i], dev \o " ")}) = 1

\* C37: once auto_fstab has written the fstab, the setting 'btrfs' is true
\* whenever a line of the fstab has type btrfs.
C37_BtrfsFlag ==
    fstab_runs >= 1 =>
        ((\E i \in EntryLines : In(" btrfs ", fstab[i])) => btrfs)

\* C39: no line of the fstab that auto_fstab wrote has an empty mount-point
\* field, and the device of a DeviceMap entry with mount point "" has a
\* line only when its filesystem is swap.
C39_NoEmptyMountPoint ==
    fstab_runs >= 1 =>
        /\ \A i \in EntryLines : ~In("  ", fstab[i])
        /\ ("" \in DOMAIN mount_devices
            /\ mount_devices[""] \in DOMAIN fs_devices
            /\ fs_devices[mount_devices[""]] # "swap")
           => LinesOf(fstab, mount_devices[""]) = {}

\* C40: a call of auto_fstab that follows one that returned, on the same
\* inputs, leaves crypttab as the first call left it.
C40_CrypttabIdempotent ==
    [][(fstab_runs >= 1 /\ fstab_runs' = fstab_runs + 1)
          => crypttab' = crypttab]_vars

\* ------------------------------------------------------------- termination
\* A step of the thread that runs run().
Pipeline ==
    \/ Prepare
    \/ Partition
    \/ MountTarget
    \/ PrepDirs
    \/ InstallSystemMedia
    \/ InstallSystemExcept
    \/ InstallSystemMount
    \/ InstallSystemIndex
    \/ InstallSystemCopy
    \/ InstallSystemFinish
    \/ MkdirLog
    \/ TryExcept
    \/ RunExcept
    \/ FatalExit
    \/ ConfigureStart
    \/ WaitTimezone
    \/ SetTimezone
    \/ WaitUserInfo
    \/ CreateUser
    \/ ConfigureMountSpecial
    \/ ConfigureHardware
    \/ ConfigureMkinitcpio
    \/ InstallBootloader
    \/ CleanupStart
    \/ UmountSpecial
    \/ UmountSources
    \/ UmountTargets
    \/ UmountRoot
    \/ Finish

\* An installation without EFI whose DeviceMap, when the partitions are
\* given, holds the root and the boot partition.
InitLive ==
    /\ Init
    /\ ~efi
    /\ method # "automatic" => DOMAIN mount_devices = {"/", "/boot"}

\* The pipeline with a thread that keeps running (Thread.start, line 258 on),
\* a front end that keeps taking events off the queue and a settings flow
\* that sets both flags.
SpecLive ==
    /\ InitLive
    /\ [][Next]_vars
    /\ WF_vars(Pipeline)
    /\ WF_vars(Consume)
    /\ WF_vars(SetTimezoneDone)
    /\ WF_vars(SetUserInfoDone)

\* The run has ended with every stage and the cleanup done.
RunFinished ==
    /\ pc = "returned"
    /\ ~running
    /\ Published("finished") = 1
    /\ cleanups = 1
    /\ {"INSTALL_SYSTEM", "CONFIGURE_SYSTEM", "FINALIZE_CLEANUP"}
          \subseteq completed

====
